---- MODULE Spec2Model ----
(***************************************************************************)
(* ST7735 driver for CH32V003 (Examples/DrawTest/st7735.c).                *)
(*                                                                         *)
(* Every C function of the driver is an operator from driver state to      *)
(* driver state.  The driver state is a record holding the file-scope      *)
(* statics, the output pins, the DMA channel registers and two traces:     *)
(*   bus   - everything the driver did to the outside world, in order      *)
(*           (pin writes, bytes clocked out by SPI_send, transfers of the  *)
(*           DMA channel, delays),                                         *)
(*   calls - the driver functions entered, in order, with their arguments. *)
(* A public operation is one action: it applies the operator to the        *)
(* current state and stores the result.                                    *)
(***************************************************************************)
EXTENDS Integers, Sequences, FiniteSets, TLC

VARIABLES
    cursor_x,   \* static uint16_t _cursor_x
    cursor_y,   \* static uint16_t _cursor_y
    color,      \* static uint16_t _color
    bg_color,   \* static uint16_t _bg_color
    buffer,     \* static uint8_t _buffer[ST7735_WIDTH << 1], indexed from 0
    str,        \* static char str[12] of tft_print_number, indexed from 0
    oob,        \* TRUE once a store went outside _buffer or str
    dc,         \* level of pin PC3 (DC): 0 command, 1 data
    cs,         \* level of pin PC4 (CS): 0 selected, 1 released
    rst,        \* level of pin PC2 (RESET)
    dma,        \* DMA1 channel 3: [en, maddr, cntr, tc]
    bus,        \* trace of the last public operation on pins, SPI and DMA
    calls,      \* driver functions entered by the last public operation
    ops,        \* public operations called so far
    inited,     \* tft_init has run
    panel,      \* panel memory: the cells written so far and their colour
    send,       \* the call of SPI_send_DMA in progress, statement by statement
    run,        \* the public operation in progress, bus event by bus event
    demo        \* the position of main of the demo and its local variables

vars == <<cursor_x, cursor_y, color, bg_color, buffer, str, oob, dc, cs, rst,
          dma, bus, calls, ops, inited, panel, send, run, demo>>

(***************************************************************************)
(* Program constants                                                       *)
(***************************************************************************)
ST7735_WIDTH == 160
ST7735_HEIGHT == 80
ST7735_X_OFFSET == 1
ST7735_Y_OFFSET == 26

ST7735_RST_DELAY == 50
ST7735_SLPOUT_DELAY == 120

ST7735_SLPOUT == 17
ST7735_NORON == 19
ST7735_INVON == 33
ST7735_DISPON == 41
ST7735_CASET == 42
ST7735_RASET == 43
ST7735_RAMWR == 44
ST7735_MADCTL == 54
ST7735_COLMOD == 58
ST7735_GMCTRP1 == 224
ST7735_GMCTRN1 == 225

ST7735_MADCTL_BGR == 8
ST7735_MADCTL_MV == 32
ST7735_MADCTL_MY == 128
ST7735_COLMOD_16_BPP == 5

FONT_WIDTH == 5
FONT_HEIGHT == 7

\* Number of bytes of _buffer: ST7735_WIDTH << 1.
BufSize == ST7735_WIDTH * 2

\* Number of bytes of the static string of tft_print_number.
StrSize == 12

\* RGB565(r, g, b): (((r)&0xF8) << 8) | (((g)&0xFC) << 3) | ((b) >> 3).
\* The three fields occupy disjoint bits, so the bitwise or is a sum.
RGB565(r, g, b) == ((r \div 8) * 8) * 256 + ((g \div 4) * 4) * 8 + (b \div 8)

BLACK == RGB565(0, 0, 0)
NAVY == RGB565(0, 0, 123)
RED == RGB565(255, 0, 0)
WHITE == RGB565(255, 255, 255)
ORANGE == RGB565(255, 165, 0)

(***************************************************************************)
(* C integer types                                                         *)
(***************************************************************************)
U8(v) == v % 256
U16(v) == v % 65536
I16(v) == IF v % 65536 >= 32768 THEN (v % 65536) - 65536 ELSE v % 65536

\* The least int32_t.
INT32_MIN == -2147483647 - 1

\* C's / and % on int32_t, for b > 0: the quotient is truncated toward zero.
CDiv(a, b) == IF a >= 0 THEN a \div b ELSE (a + b - 1) \div b
CMod(a, b) == a - b * CDiv(a, b)

\* / 10 and % 10 on the uint32_t whose bits are those of the negative
\* int32_t a, that is on a + 2^32, where 2^32 = 10 * 429496729 + 6.
UDiv10(a) == 429496729 + (a + 6) \div 10
UMod10(a) == (a + 6) % 10

(***************************************************************************)
(* Driver state as one record, and the traces                              *)
(***************************************************************************)
Cur ==
    [cursor_x |-> cursor_x, cursor_y |-> cursor_y, color |-> color,
     bg_color |-> bg_color, buffer |-> buffer, str |-> str, oob |-> oob,
     dc |-> dc, cs |-> cs, rst |-> rst, dma |-> dma,
     bus |-> <<>>, calls |-> <<>>]

\* One entry of the bus trace.  ev is "rst", "dc", "cs" (a pin write, val the
\* new level), "spi" (SPI_send, val the byte), "dma" (SPI_send_DMA, val the
\* size, data the bytes of one pass, rep the number of passes) or "delay"
\* (Delay_Ms, val the milliseconds).  dc and cs are the pin levels then.
Ev(kind, v, s) ==
    [ev |-> kind, val |-> v, dc |-> s.dc, cs |-> s.cs, data |-> <<>>, rep |-> 0]

Emit(s, e) == [s EXCEPT !.bus = Append(@, e)]

\* Entry of a driver function: its name, its arguments, the length of the
\* bus trace and the cursor at that moment.
Call(s, fn, args) ==
    [s EXCEPT !.calls = Append(@, [fn |-> fn, args |-> args,
                                   at |-> Len(s.bus),
                                   cur |-> <<s.cursor_x, s.cursor_y>>])]

(***************************************************************************)
(* Pins                                                                    *)
(***************************************************************************)
DATA_MODE(s) == LET t == [s EXCEPT !.dc = 1] IN Emit(t, Ev("dc", 1, t))
COMMAND_MODE(s) == LET t == [s EXCEPT !.dc = 0] IN Emit(t, Ev("dc", 0, t))
RESET_HIGH(s) == LET t == [s EXCEPT !.rst = 1] IN Emit(t, Ev("rst", 1, t))
RESET_LOW(s) == LET t == [s EXCEPT !.rst = 0] IN Emit(t, Ev("rst", 0, t))
START_WRITE(s) == LET t == [s EXCEPT !.cs = 0] IN Emit(t, Ev("cs", 0, t))
END_WRITE(s) == LET t == [s EXCEPT !.cs = 1] IN Emit(t, Ev("cs", 1, t))

\* A variant of Delay_Ms: the wait after sleep-out returns at once.
Delay_Ms_skip_slpout(s, ms) ==
    IF ms = ST7735_SLPOUT_DELAY THEN s ELSE Emit(s, Ev("delay", ms, s))

Delay_Ms(s, ms) == Emit(s, Ev("delay", ms, s))

(***************************************************************************)
(* Bus transport                                                           *)
(***************************************************************************)
\* SPI_init leaves the DMA channel configured and not enabled.
SPI_init(s) ==
    [Call(s, "SPI_init", <<>>) EXCEPT
        !.dma = [en |-> 0, maddr |-> "none", cntr |-> 0, tc |-> 0]]

\* The bytes the channel reads in one pass: size bytes from the start of mem.
\* A byte behind the end of mem is recorded as -1.
DmaPass(mem, size) ==
    [i \in 1..size |-> IF i <= Len(mem) THEN mem[i] ELSE -1]

\* SPI_send_DMA(buffer, size, repeat) with the channel running to completion:
\* the address and the count are set, the channel is enabled, each of the
\* repeat iterations clears the flag and waits for it, the channel is
\* disabled.  name identifies the memory, mem is its contents.
SPI_send_DMA(s, name, mem, size, repeat) ==
    LET s0 == Call(s, "SPI_send_DMA", <<name, size, repeat>>)
        s1 == [s0 EXCEPT !.dma.maddr = name, !.dma.cntr = size, !.dma.en = 1]
        s2 == Emit(s1, [Ev("dma", size, s1) EXCEPT
                           !.data = DmaPass(mem, size), !.rep = repeat])
    IN  [s2 EXCEPT !.dma.en = 0,
                   !.dma.tc = IF repeat > 0 THEN 1 ELSE s.dma.tc]

\* SPI_send(data): one byte through the data register, then wait for TXE.
SPI_send(s, data) == Emit(s, Ev("spi", U8(data), s))

(***************************************************************************)
(* Command/data protocol layer                                             *)
(***************************************************************************)
write_command_8(s, cmd) == SPI_send(COMMAND_MODE(s), cmd)

write_data_8(s, data) == SPI_send(DATA_MODE(s), data)

\* A variant of write_data_16: the low byte first.
write_data_16_low_first(s, data) ==
    SPI_send(SPI_send(DATA_MODE(s), data), data \div 256)

write_data_16(s, data) ==
    SPI_send(SPI_send(DATA_MODE(s), data \div 256), data)

\* A variant of tft_set_window: the DC line is put back to data before the
\* function returns.
tft_set_window_then_data(s, x0, y0, x1, y1) ==
    LET s0 == Call(s, "tft_set_window", <<x0, y0, x1, y1>>)
        s1 == write_command_8(s0, ST7735_CASET)
        s2 == write_data_16(s1, x0)
        s3 == write_data_16(s2, x1)
        s4 == write_command_8(s3, ST7735_RASET)
        s5 == write_data_16(s4, y0)
        s6 == write_data_16(s5, y1)
    IN  DATA_MODE(write_command_8(s6, ST7735_RAMWR))

tft_set_window(s, x0, y0, x1, y1) ==
    LET s0 == Call(s, "tft_set_window", <<x0, y0, x1, y1>>)
        s1 == write_command_8(s0, ST7735_CASET)
        s2 == write_data_16(s1, x0)
        s3 == write_data_16(s2, x1)
        s4 == write_command_8(s3, ST7735_RASET)
        s5 == write_data_16(s4, y0)
        s6 == write_data_16(s5, y1)
    IN  write_command_8(s6, ST7735_RAMWR)

(***************************************************************************)
(* Scratch row buffer                                                      *)
(***************************************************************************)
\* _buffer[i] = v, a store of a uint8_t.  A store behind the end of the
\* array is undefined; it is recorded in oob and the array is left alone.
BufStore(s, i, v) ==
    IF i < BufSize THEN [s EXCEPT !.buffer[i] = U8(v)]
    ELSE [s EXCEPT !.oob = TRUE]

\* The contents of _buffer as the DMA channel reads them from its start.
BufMem(s) == [i \in 1..BufSize |-> s.buffer[i - 1]]

\* A variant of the body of the fill loops: the low byte of the colour
\* first.
FillBodyLowFirst(ls, c) ==
    [s  |-> BufStore(BufStore(ls.s, ls.sz, c), U16(ls.sz + 1), c \div 256),
     sz |-> U16(ls.sz + 2)]

\* The body of the fill loops, on the state and the index sz:
\*     _buffer[sz++] = color >> 8;  _buffer[sz++] = color;
FillBody(ls, c) ==
    [s  |-> BufStore(BufStore(ls.s, ls.sz, c \div 256), U16(ls.sz + 1), c),
     sz |-> U16(ls.sz + 2)]

\* FillBody k times in a row.  The run is split in two halves, and t ranges
\* over the one result of the first half, so that the first half is
\* evaluated before the second starts.
RECURSIVE FillRepeat(_, _, _)
FillRepeat(ls, k, c) ==
    IF k <= 0 THEN ls
    ELSE IF k = 1 THEN FillBody(ls, c)
    ELSE CHOOSE r \in {FillRepeat(t, k - k \div 2, c) :
                          t \in {FillRepeat(ls, k \div 2, c)}} : TRUE

\* uint16_t sz = 0;  for (j = 0; j < n; j++) { the body }
\* Returns the state and the final sz.
\* A variant of the fill loop: for (j = 0; j <= n; j++).
FillLoopInclusive(s, n, c) == FillRepeat([s |-> s, sz |-> 0], n + 1, c)

FillLoop(s, n, c) == FillRepeat([s |-> s, sz |-> 0], n, c)

(***************************************************************************)
(* Graphics primitives                                                     *)
(***************************************************************************)
\* A variant of tft_draw_pixel: the row offset is left out.
tft_draw_pixel_no_y_offset(s, x, y, c) ==
    LET s0 == Call(s, "tft_draw_pixel", <<x, y, c>>)
        xo == U16(x + ST7735_X_OFFSET)
        s1 == START_WRITE(s0)
        s2 == tft_set_window(s1, xo, y, xo, y)
        s3 == write_data_16(s2, c)
    IN  END_WRITE(s3)

\* A variant of tft_draw_pixel: the chip is released and selected again
\* between the window set and the pixel.
tft_draw_pixel_release_between(s, x, y, c) ==
    LET s0 == Call(s, "tft_draw_pixel", <<x, y, c>>)
        xo == U16(x + ST7735_X_OFFSET)
        yo == U16(y + ST7735_Y_OFFSET)
        s1 == START_WRITE(s0)
        s2 == tft_set_window(s1, xo, yo, xo, yo)
        s3 == write_data_16(START_WRITE(END_WRITE(s2)), c)
    IN  END_WRITE(s3)

tft_draw_pixel(s, x, y, c) ==
    LET s0 == Call(s, "tft_draw_pixel", <<x, y, c>>)
        xo == U16(x + ST7735_X_OFFSET)
        yo == U16(y + ST7735_Y_OFFSET)
        s1 == START_WRITE(s0)
        s2 == tft_set_window(s1, xo, yo, xo, yo)
        s3 == write_data_16(s2, c)
    IN  END_WRITE(s3)

tft_fill_rect(s, x, y, width, height, c) ==
    LET s0 == Call(s, "tft_fill_rect", <<x, y, width, height, c>>)
        xo == U16(x + ST7735_X_OFFSET)
        yo == U16(y + ST7735_Y_OFFSET)
        f  == FillLoop(s0, width, c)
        s1 == START_WRITE(f.s)
        s2 == tft_set_window(s1, xo, yo, U16(xo + width - 1), U16(yo + height - 1))
        s3 == DATA_MODE(s2)
        s4 == SPI_send_DMA(s3, "_buffer", BufMem(s3), f.sz, height)
    IN  END_WRITE(s4)

\* A variant of tft_draw_bitmap: the size is the number of pixels instead of
\* the number of bytes.
tft_draw_bitmap_pixel_count(s, x, y, width, height, bitmap) ==
    LET s0 == Call(s, "tft_draw_bitmap", <<x, y, width, height>>)
        xo == U16(x + ST7735_X_OFFSET)
        yo == U16(y + ST7735_Y_OFFSET)
        s1 == START_WRITE(s0)
        s2 == tft_set_window(s1, xo, yo, U16(xo + width - 1), U16(yo + height - 1))
        s3 == DATA_MODE(s2)
        s4 == SPI_send_DMA(s3, "bitmap", bitmap, U16(width * height), 1)
    IN  END_WRITE(s4)

\* draw_bitmap streams the caller's memory; bitmap is its contents.
tft_draw_bitmap(s, x, y, width, height, bitmap) ==
    LET s0 == Call(s, "tft_draw_bitmap", <<x, y, width, height>>)
        xo == U16(x + ST7735_X_OFFSET)
        yo == U16(y + ST7735_Y_OFFSET)
        s1 == START_WRITE(s0)
        s2 == tft_set_window(s1, xo, yo, U16(xo + width - 1), U16(yo + height - 1))
        s3 == DATA_MODE(s2)
        s4 == SPI_send_DMA(s3, "bitmap", bitmap, U16((width * height) * 2), 1)
    IN  END_WRITE(s4)

\* Parameters are int16_t; the window arguments are converted to uint16_t.
_tft_draw_fast_v_line(s, x, y, h, c) ==
    LET s0 == Call(s, "_tft_draw_fast_v_line", <<x, y, h, c>>)
        xo == I16(x + ST7735_X_OFFSET)
        yo == I16(y + ST7735_Y_OFFSET)
        f  == FillLoop(s0, h, c)
        s1 == START_WRITE(f.s)
        s2 == tft_set_window(s1, U16(xo), U16(yo), U16(xo), U16(yo + h - 1))
        s3 == DATA_MODE(s2)
        s4 == SPI_send_DMA(s3, "_buffer", BufMem(s3), f.sz, 1)
    IN  END_WRITE(s4)

_tft_draw_fast_h_line(s, x, y, w, c) ==
    LET s0 == Call(s, "_tft_draw_fast_h_line", <<x, y, w, c>>)
        xo == I16(x + ST7735_X_OFFSET)
        yo == I16(y + ST7735_Y_OFFSET)
        f  == FillLoop(s0, w, c)
        s1 == START_WRITE(f.s)
        s2 == tft_set_window(s1, U16(xo), U16(yo), U16(xo + w - 1), U16(yo))
        s3 == DATA_MODE(s2)
        s4 == SPI_send_DMA(s3, "_buffer", BufMem(s3), f.sz, 1)
    IN  END_WRITE(s4)

\* #define _diff(a, b) ((a > b) ? (a - b) : (b - a))
_diff(a, b) == IF a > b THEN a - b ELSE b - a

\* The body of the loop of _tft_draw_line_bresenham, on the state and the
\* loop variables x0, y0, err; p holds what the loop does not change.
\*     draw the pixel;  err -= dy;  if (err < 0) { err += dx; y0 += step; }
\*     x0++
BresenhamBody(ls, p) ==
    LET e1 == I16(ls.err - p.dy)
    IN  [s   |-> IF p.steep THEN tft_draw_pixel(ls.s, U16(ls.y0), U16(ls.x0), p.c)
                 ELSE tft_draw_pixel(ls.s, U16(ls.x0), U16(ls.y0), p.c),
         x0  |-> I16(ls.x0 + 1),
         y0  |-> IF e1 < 0 THEN I16(ls.y0 + p.step) ELSE ls.y0,
         err |-> IF e1 < 0 THEN I16(e1 + p.dx) ELSE e1]

\* BresenhamBody k times in a row, split in two halves as in FillRepeat.
RECURSIVE BresenhamRepeat(_, _, _)
BresenhamRepeat(ls, k, p) ==
    IF k <= 0 THEN ls
    ELSE IF k = 1 THEN BresenhamBody(ls, p)
    ELSE CHOOSE r \in {BresenhamRepeat(t, k - k \div 2, p) :
                          t \in {BresenhamRepeat(ls, k \div 2, p)}} : TRUE

\* A variant of the loop of _tft_draw_line_bresenham: for (; x0 < x1; x0++).
BresenhamLoopExclusive(s, x0, y0, x1, dx, dy, err, step, steep, c) ==
    BresenhamRepeat([s |-> s, x0 |-> x0, y0 |-> y0, err |-> err],
                    x1 - x0,
                    [dx |-> dx, dy |-> dy, step |-> step, steep |-> steep,
                     c |-> c]).s

\* for (; x0 <= x1; x0++) { the body }: x1 - x0 + 1 iterations when
\* x0 <= x1, none otherwise.
BresenhamLoop(s, x0, y0, x1, dx, dy, err, step, steep, c) ==
    BresenhamRepeat([s |-> s, x0 |-> x0, y0 |-> y0, err |-> err],
                    x1 - x0 + 1,
                    [dx |-> dx, dy |-> dy, step |-> step, steep |-> steep,
                     c |-> c]).s

\* A variant of _tft_draw_line_bresenham: the endpoints are not put in
\* left-to-right order.
_tft_draw_line_bresenham_no_swap(s, x0, y0, x1, y1, c) ==
    LET s0 == Call(s, "_tft_draw_line_bresenham", <<x0, y0, x1, y1, c>>)
        steep == _diff(y1, y0) > _diff(x1, x0)
        ax0 == IF steep THEN y0 ELSE x0
        ay0 == IF steep THEN x0 ELSE y0
        ax1 == IF steep THEN y1 ELSE x1
        ay1 == IF steep THEN x1 ELSE y1
        dx == I16(ax1 - ax0)
        dy == I16(_diff(ay1, ay0))
        err == dx \div 2
        step == IF ay0 < ay1 THEN 1 ELSE -1
    IN  BresenhamLoop(s0, ax0, ay0, ax1, dx, dy, err, step, steep, c)

_tft_draw_line_bresenham(s, x0, y0, x1, y1, c) ==
    LET s0 == Call(s, "_tft_draw_line_bresenham", <<x0, y0, x1, y1, c>>)
        steep == _diff(y1, y0) > _diff(x1, x0)
        \* if (steep) { swap(x0, y0); swap(x1, y1); }
        ax0 == IF steep THEN y0 ELSE x0
        ay0 == IF steep THEN x0 ELSE y0
        ax1 == IF steep THEN y1 ELSE x1
        ay1 == IF steep THEN x1 ELSE y1
        \* if (x0 > x1) { swap(x0, x1); swap(y0, y1); }
        bx0 == IF ax0 > ax1 THEN ax1 ELSE ax0
        bx1 == IF ax0 > ax1 THEN ax0 ELSE ax1
        by0 == IF ax0 > ax1 THEN ay1 ELSE ay0
        by1 == IF ax0 > ax1 THEN ay0 ELSE ay1
        dx == I16(bx1 - bx0)
        dy == I16(_diff(by1, by0))
        err == dx \div 2
        step == IF by0 < by1 THEN 1 ELSE -1
    IN  BresenhamLoop(s0, bx0, by0, bx1, dx, dy, err, step, steep, c)

\* A variant of tft_draw_rect: the bottom side one row lower, at y + height.
tft_draw_rect_bottom_below(s, x, y, width, height, c) ==
    LET s0 == Call(s, "tft_draw_rect", <<x, y, width, height, c>>)
        top    == {_tft_draw_fast_h_line(s0, I16(x), I16(y), I16(width), c)}
        bottom == {_tft_draw_fast_h_line(s1, I16(x), I16(y + height),
                                         I16(width), c) : s1 \in top}
        left   == {_tft_draw_fast_v_line(s2, I16(x), I16(y), I16(height), c) :
                      s2 \in bottom}
        right  == {_tft_draw_fast_v_line(s3, I16(x + width - 1), I16(y),
                                         I16(height), c) : s3 \in left}
    IN  CHOOSE r \in right : TRUE

\* Parameters are uint16_t, converted to the int16_t of the fast lines.
tft_draw_rect(s, x, y, width, height, c) ==
    LET s0 == Call(s, "tft_draw_rect", <<x, y, width, height, c>>)
        \* the four lines in the order of the source; each s_i ranges over
        \* the one state the line before it leaves
        top    == {_tft_draw_fast_h_line(s0, I16(x), I16(y), I16(width), c)}
        bottom == {_tft_draw_fast_h_line(s1, I16(x), I16(y + height - 1),
                                         I16(width), c) : s1 \in top}
        left   == {_tft_draw_fast_v_line(s2, I16(x), I16(y), I16(height), c) :
                      s2 \in bottom}
        right  == {_tft_draw_fast_v_line(s3, I16(x + width - 1), I16(y),
                                         I16(height), c) : s3 \in left}
    IN  CHOOSE r \in right : TRUE

\* A variant of tft_draw_line: the endpoints of a vertical or horizontal
\* line are not put in order.
tft_draw_line_no_swap(s, x0, y0, x1, y1, c) ==
    LET s0 == Call(s, "tft_draw_line", <<x0, y0, x1, y1, c>>)
    IN  IF x0 = x1
        THEN _tft_draw_fast_v_line(s0, x0, y0, I16(y1 - y0 + 1), c)
        ELSE IF y0 = y1
        THEN _tft_draw_fast_h_line(s0, x0, y0, I16(x1 - x0 + 1), c)
        ELSE _tft_draw_line_bresenham(s0, x0, y0, x1, y1, c)

tft_draw_line(s, x0, y0, x1, y1, c) ==
    LET s0 == Call(s, "tft_draw_line", <<x0, y0, x1, y1, c>>)
    IN  IF x0 = x1
        THEN LET lo == IF y0 > y1 THEN y1 ELSE y0
                 hi == IF y0 > y1 THEN y0 ELSE y1
             IN  _tft_draw_fast_v_line(s0, x0, lo, I16(hi - lo + 1), c)
        ELSE IF y0 = y1
        THEN LET lo == IF x0 > x1 THEN x1 ELSE x0
                 hi == IF x0 > x1 THEN x0 ELSE x1
             IN  _tft_draw_fast_h_line(s0, lo, y0, I16(hi - lo + 1), c)
        ELSE _tft_draw_line_bresenham(s0, x0, y0, x1, y1, c)

(***************************************************************************)
(* Text layer                                                              *)
(***************************************************************************)
\* font[k] of font5x7.h.  The table is not part of the sources at hand; any
\* fixed table of bytes serves, and this one differs from glyph to glyph.
font(k) == (k * 37 + (k \div 5) * 11 + 5) % 128

\* (v & (0x01 << i)) != 0
BitSet(v, i) == (v \div (2 ^ i)) % 2 = 1

\* A variant of the inner loop of tft_print_char: the foreground colour for
\* a clear bit and the background colour for a set bit.
RECURSIVE GlyphColsInverse(_, _, _, _)
GlyphColsInverse(ls, start, i, j) ==
    IF j < FONT_WIDTH
    THEN LET px == IF BitSet(font(start + j), i) THEN ls.s.bg_color
                   ELSE ls.s.color
         IN  GlyphColsInverse([s  |-> BufStore(BufStore(ls.s, ls.sz, px \div 256),
                                               U16(ls.sz + 1), px),
                               sz |-> U16(ls.sz + 2)],
                              start, i, j + 1)
    ELSE ls

\* The inner loop of tft_print_char, for (j = 0; j < FONT_WIDTH; j++), in
\* row i of the glyph that starts at font[start]; two bytes per pixel.
RECURSIVE GlyphCols(_, _, _, _)
GlyphCols(ls, start, i, j) ==
    IF j < FONT_WIDTH
    THEN LET px == IF BitSet(font(start + j), i) THEN ls.s.color
                   ELSE ls.s.bg_color
         IN  GlyphCols([s  |-> BufStore(BufStore(ls.s, ls.sz, px \div 256),
                                        U16(ls.sz + 1), px),
                        sz |-> U16(ls.sz + 2)],
                       start, i, j + 1)
    ELSE ls

\* The outer loop, for (i = 0; i < FONT_HEIGHT; i++).
RECURSIVE GlyphRows(_, _, _)
GlyphRows(ls, start, i) ==
    IF i < FONT_HEIGHT
    THEN CHOOSE r \in {GlyphRows(t, start, i + 1) :
                          t \in {GlyphCols(ls, start, i, 0)}} : TRUE
    ELSE ls

\* uint16_t sz = 0; the two loops.  Returns the state and the final sz.
GlyphLoop(s, start) == GlyphRows([s |-> s, sz |-> 0], start, 0)

tft_print_char(s, c) ==
    LET s0 == Call(s, "tft_print_char", <<c>>)
        g  == GlyphLoop(s0, c + c * 4)
        s1 == START_WRITE(g.s)
        s2 == tft_set_window(s1, s1.cursor_x, s1.cursor_y,
                             U16(s1.cursor_x + FONT_WIDTH - 1),
                             U16(s1.cursor_y + FONT_HEIGHT - 1))
        s3 == DATA_MODE(s2)
        s4 == SPI_send_DMA(s3, "_buffer", BufMem(s3), g.sz, 1)
    IN  END_WRITE(s4)

\* A C string: the characters of txt, indexed from 0, and the terminator.
CStr(txt) == [i \in 0..Len(txt) |-> IF i < Len(txt) THEN txt[i + 1] ELSE 0]

\* A variant of the loop of tft_print: the cursor goes back to the first
\* column when it passes the last one.
RECURSIVE PrintLoopWrap(_, _, _)
PrintLoopWrap(s, mem, p) ==
    IF mem[p] = 0 THEN s
    ELSE LET s1 == tft_print_char(s, mem[p])
             x  == U16(s1.cursor_x + FONT_WIDTH + 1)
         IN  CHOOSE r \in {PrintLoopWrap(t, mem, p + 1) :
                    t \in {[s1 EXCEPT !.cursor_x =
                                IF x >= ST7735_WIDTH + ST7735_X_OFFSET
                                THEN ST7735_X_OFFSET ELSE x]}} :
                 TRUE

\* while (*str) { tft_print_char(*str++); _cursor_x += FONT_WIDTH + 1; }
\* The pointer str is the memory mem and the index p into it.
RECURSIVE PrintLoop(_, _, _)
PrintLoop(s, mem, p) ==
    IF mem[p] = 0 THEN s
    ELSE LET s1 == tft_print_char(s, mem[p])
         IN  CHOOSE r \in {PrintLoop(t, mem, p + 1) :
                    t \in {[s1 EXCEPT !.cursor_x = U16(@ + FONT_WIDTH + 1)]}} :
                 TRUE

tft_print(s, mem, p) == PrintLoop(Call(s, "tft_print", <<p>>), mem, p)

\* str[i] = v, a store of a char into the static str[12].
StrStore(s, i, v) ==
    IF i < StrSize THEN [s EXCEPT !.str[i] = U8(v)]
    ELSE [s EXCEPT !.oob = TRUE]

\* A variant of the digit loop: a zero is written in front of the digits.
RECURSIVE DigitLoopPadded(_, _, _, _)
DigitLoopPadded(s, num, uns, position) ==
    IF num # 0
    THEN LET r == IF uns /\ num < 0 THEN UMod10(num) ELSE CMod(num, 10)
             q == IF uns /\ num < 0 THEN UDiv10(num) ELSE CDiv(num, 10)
         IN  DigitLoopPadded(StrStore(s, U8(position - 1), r + 48), q, uns,
                             U8(position - 1))
    ELSE [s |-> StrStore(s, U8(position - 1), 48), position |-> U8(position - 1)]

\* while (num) { str[--position] = num % 10 + '0'; num /= 10; }
\* uns: the build divides num as a uint32_t (see Negate).
RECURSIVE DigitLoop(_, _, _, _)
DigitLoop(s, num, uns, position) ==
    IF num # 0
    THEN LET r == IF uns /\ num < 0 THEN UMod10(num) ELSE CMod(num, 10)
             q == IF uns /\ num < 0 THEN UDiv10(num) ELSE CDiv(num, 10)
         IN  DigitLoop(StrStore(s, U8(position - 1), r + 48), q, uns,
                       U8(position - 1))
    ELSE [s |-> s, position |-> position]

\* The outcome of "num = -num" for num < 0.  The negation of -2147483648
\* overflows int32_t, which C leaves undefined: a build either wraps (num
\* stays -2147483648 and is divided as a signed number) or, having inferred
\* num >= 0, divides the same bits as the unsigned number 2147483648.
Negate(num, ub) ==
    IF num # INT32_MIN THEN [v |-> -num, uns |-> FALSE]
    ELSE [v |-> INT32_MIN, uns |-> (ub = "unsigned")]

NegateOutcomes == {"wrap", "unsigned"}

\* A variant of the width of the number: the gaps between glyphs left out.
NumWidthNoGap(position) == U16((11 - position) * FONT_WIDTH)

\* num_width = (11 - position) * (FONT_WIDTH + 1) - 1, a uint16_t.
NumWidth(position) == U16((11 - position) * (FONT_WIDTH + 1) - 1)

tft_print_number(s, num, width, ub) ==
    LET s0 == Call(s, "tft_print_number", <<num, width>>)
        negative == IF num < 0 THEN 1 ELSE 0
        n1 == IF num < 0 THEN Negate(num, ub) ELSE [v |-> num, uns |-> FALSE]
        s1 == StrStore(s0, 11, 0)
        d  == DigitLoop(s1, n1.v, n1.uns, 11)
        \* if (position == 11) str[--position] = '0';
        p2 == IF d.position = 11 THEN U8(d.position - 1) ELSE d.position
        s2 == IF d.position = 11 THEN StrStore(d.s, p2, 48) ELSE d.s
        \* if (negative) str[--position] = '-';
        p3 == IF negative = 1 THEN U8(p2 - 1) ELSE p2
        s3 == IF negative = 1 THEN StrStore(s2, p3, 45) ELSE s2
        num_width == NumWidth(p3)
        s4 == IF width > num_width
              THEN [s3 EXCEPT !.cursor_x = U16(@ + width - num_width)]
              ELSE s3
        \* tft_print(&str[position]); a position outside str is a read
        \* outside the string.
    IN  IF p3 < StrSize THEN tft_print(s4, s4.str, p3)
        ELSE [Call(s4, "tft_print", <<p3>>) EXCEPT !.oob = TRUE]

\* A variant of tft_set_cursor: the offsets are left out.
tft_set_cursor_no_offset(s, x, y) ==
    [Call(s, "tft_set_cursor", <<x, y>>) EXCEPT !.cursor_x = x, !.cursor_y = y]

tft_set_cursor(s, x, y) ==
    [Call(s, "tft_set_cursor", <<x, y>>) EXCEPT
        !.cursor_x = U16(x + ST7735_X_OFFSET),
        !.cursor_y = U16(y + ST7735_Y_OFFSET)]

\* A variant of tft_set_color: the background colour is set as well.
tft_set_color_both(s, c) ==
    [Call(s, "tft_set_color", <<c>>) EXCEPT !.color = c, !.bg_color = c]

tft_set_color(s, c) == [Call(s, "tft_set_color", <<c>>) EXCEPT !.color = c]

tft_set_background_color(s, c) ==
    [Call(s, "tft_set_background_color", <<c>>) EXCEPT !.bg_color = c]

(***************************************************************************)
(* Initialization                                                          *)
(***************************************************************************)
gamma_p == <<9, 22, 9, 32, 33, 27, 19, 25, 23, 21, 30, 43, 4, 5, 2, 14>>
gamma_n == <<11, 20, 8, 30, 34, 29, 24, 30, 27, 26, 36, 43, 6, 6, 2, 15>>

tft_init(s) ==
    LET s0  == SPI_init(Call(s, "tft_init", <<>>))
        s1  == RESET_LOW(s0)
        s2  == Delay_Ms(s1, ST7735_RST_DELAY)
        s3  == RESET_HIGH(s2)
        s4  == Delay_Ms(s3, ST7735_RST_DELAY)
        s5  == START_WRITE(s4)
        s6  == write_command_8(s5, ST7735_SLPOUT)
        s7  == Delay_Ms(s6, ST7735_SLPOUT_DELAY)
        s8  == write_command_8(s7, ST7735_MADCTL)
        s9  == write_data_8(s8, ST7735_MADCTL_MY + ST7735_MADCTL_MV
                                + ST7735_MADCTL_BGR)
        s10 == write_command_8(s9, ST7735_COLMOD)
        s11 == write_data_8(s10, ST7735_COLMOD_16_BPP)
        s12 == write_command_8(s11, ST7735_GMCTRP1)
        s13 == DATA_MODE(s12)
        s14 == SPI_send_DMA(s13, "gamma_p", gamma_p, 16, 1)
        s15 == write_command_8(s14, ST7735_GMCTRN1)
        s16 == DATA_MODE(s15)
        s17 == SPI_send_DMA(s16, "gamma_n", gamma_n, 16, 1)
        s18 == Delay_Ms(s17, 10)
        s19 == write_command_8(s18, ST7735_INVON)
        s20 == write_command_8(s19, ST7735_NORON)
        s21 == Delay_Ms(s20, 10)
        s22 == write_command_8(s21, ST7735_DISPON)
        s23 == Delay_Ms(s22, 10)
    IN  END_WRITE(s23)

(***************************************************************************)
(* Panel memory, as the controller fills it from the bus                   *)
(***************************************************************************)
\* The entries of a bus trace that carry bytes.
Wire(b) == SelectSeq(b, LAMBDA e : e.ev \in {"spi", "dma"})

IsCmd(e, code) == e.ev = "spi" /\ e.dc = 0 /\ e.val = code
IsData(e) == e.ev = "spi" /\ e.dc = 1

\* A window set starts at w[i]: CASET and four data bytes, RASET and four
\* data bytes, RAMWR.
IsWindowSet(w, i) ==
    /\ i + 10 <= Len(w)
    /\ IsCmd(w[i], ST7735_CASET)
    /\ \A k \in 1..4 : IsData(w[i + k])
    /\ IsCmd(w[i + 5], ST7735_RASET)
    /\ \A k \in 6..9 : IsData(w[i + k])
    /\ IsCmd(w[i + 10], ST7735_RAMWR)

WindowSets(w) == {i \in 1..Len(w) : IsWindowSet(w, i)}

\* The window that the window set at w[i] opens.
WindowAt(w, i) ==
    [x0 |-> w[i + 1].val * 256 + w[i + 2].val,
     x1 |-> w[i + 3].val * 256 + w[i + 4].val,
     y0 |-> w[i + 6].val * 256 + w[i + 7].val,
     y1 |-> w[i + 8].val * 256 + w[i + 9].val]

\* The positions in w of its window sets, in increasing order.
WindowIndex(w) ==
    LET ws == WindowSets(w)
        before == [i \in ws |-> Cardinality({j \in ws : j < i})]
    IN  [k \in 1..Cardinality(ws) |-> CHOOSE i \in ws : before[i] = k - 1]

\* The windows opened on the bus, in order.
Windows(b) ==
    LET w == Wire(b)
        idx == WindowIndex(w)
    IN  [k \in 1..Len(idx) |-> WindowAt(w, idx[k])]

\* The data entries that follow the window set at w[i]: up to the next
\* command byte.
StreamEnd(w, i) ==
    LET later == {j \in (i + 11)..Len(w) : w[j].ev = "spi" /\ w[j].dc = 0}
    IN  IF later = {} THEN Len(w)
        ELSE (CHOOSE j \in later : \A k \in later : j <= k) - 1

EvBytes(e) == IF e.ev = "dma" THEN e.val * e.rep ELSE 1

\* Byte k (from 0) of the bytes carried by e: the channel re-reads its
\* memory in every pass.
EvByte(e, k) == IF e.ev = "dma" THEN e.data[(k % e.val) + 1] ELSE e.val

RECURSIVE StreamLen(_, _, _)
StreamLen(w, from, to) ==
    IF from > to THEN 0 ELSE EvBytes(w[from]) + StreamLen(w, from + 1, to)

RECURSIVE StreamByte(_, _, _)
StreamByte(w, from, k) ==
    IF k < EvBytes(w[from]) THEN EvByte(w[from], k)
    ELSE StreamByte(w, from + 1, k - EvBytes(w[from]))

\* The number of pixels streamed into the window that the window set at
\* w[i] opens.
WindowPixels(w, i) == StreamLen(w, i + 11, StreamEnd(w, i)) \div 2

\* The colour of pixel q (from 0) streamed after the window set at w[i].
StreamPixel(w, i, q) ==
    StreamByte(w, i + 11, 2 * q) * 256 + StreamByte(w, i + 11, 2 * q + 1)

\* The cells that the window set at w[i] and the pixels streamed after it
\* write.  Pixel q goes to column x0 + q mod W of row y0 + q div W.
WindowCells(w, i) ==
    LET win == WindowAt(w, i)
        W == win.x1 - win.x0 + 1
        H == win.y1 - win.y0 + 1
        npix == WindowPixels(w, i)
        filled == IF npix < W * H THEN npix ELSE W * H
    IN  IF W <= 0 \/ H <= 0 THEN {}
        ELSE {<<win.x0 + (q % W), win.y0 + (q \div W)>> : q \in 0..(filled - 1)}

\* The cells written by the bus trace b, in display coordinates.
Painted(b) ==
    LET w == Wire(b)
    IN  {<<c[1] - ST7735_X_OFFSET, c[2] - ST7735_Y_OFFSET>> :
            c \in UNION {WindowCells(w, i) : i \in WindowSets(w)}}

\* Panel memory: PanelCols x PanelRows cells, the display in its middle; the
\* cell of column x and row y is at address Addr(x, y).  The memory is a
\* function from addresses to colours; a cell that was never written is
\* either outside its domain or holds -1.
PanelCols == ST7735_WIDTH + 2 * ST7735_X_OFFSET
PanelRows == ST7735_HEIGHT + 2 * ST7735_Y_OFFSET
PanelCells == 0..(PanelCols * PanelRows - 1)
Addr(x, y) == y * PanelCols + x
Blank == <<>>
Cell(mem, a) == IF a \in DOMAIN mem THEN mem[a] ELSE -1

\* Panel memory mem after the window set at w[i] and the pixels streamed
\* after it.  The address wraps around to the window's start when the
\* window is full, so a cell keeps the last pixel that reached it.
PaintWindow(mem, w, i) ==
    LET win == WindowAt(w, i)
        W == win.x1 - win.x0 + 1
        H == win.y1 - win.y0 + 1
        npix == WindowPixels(w, i)
        Pix(q) == q + (W * H) * ((npix - 1 - q) \div (W * H))
    IN  IF W <= 0 \/ H <= 0 \/ npix = 0 THEN mem
        ELSE [a \in PanelCells |->
                LET x == a % PanelCols
                    y == a \div PanelCols
                    q == (y - win.y0) * W + (x - win.x0)
                IN  IF /\ x \in win.x0..win.x1
                       /\ y \in win.y0..win.y1
                       /\ q < npix
                    THEN StreamPixel(w, i, Pix(q))
                    ELSE Cell(mem, a)]

\* Panel memory mem after the window sets of w numbered from..to, in order;
\* idx lists the positions of the window sets.
RECURSIVE PaintFrom(_, _, _, _, _)
PaintFrom(mem, w, idx, from, to) ==
    IF from > to THEN mem
    ELSE IF from = to THEN PaintWindow(mem, w, idx[from])
    ELSE LET mid == (from + to) \div 2
         IN  CHOOSE r \in {PaintFrom(m, w, idx, mid + 1, to) :
                              m \in {PaintFrom(mem, w, idx, from, mid)}} : TRUE

\* Panel memory after the bus trace b, starting from memory mem.
Paint(mem, b) ==
    LET w == Wire(b)
        idx == WindowIndex(w)
    IN  PaintFrom(mem, w, idx, 1, Len(idx))

(***************************************************************************)
(* The state machine                                                       *)
(***************************************************************************)
\* Number of public operations in a run, tft_init included.
MaxOps == 3

\* No call of SPI_send_DMA in progress.  pc is the statement to execute
\* next, size and repeat are the parameters (repeat counts down), and the
\* other fields count what the call has done: writes of MADDR and of CNTR,
\* switching the channel on and off, clearing the flag, leaving the wait
\* loop, and the passes the channel has completed.
Idle ==
    [pc |-> "idle", size |-> 0, repeat |-> 0, maddrs |-> 0, cntrs |-> 0,
     ons |-> 0, offs |-> 0, clears |-> 0, waits |-> 0, passes |-> 0]

\* No public operation in progress.  pc is where the operation is: "cpu"
\* running, "txe" in the wait loop of SPI_send, "clear", "tc" and "off" in
\* SPI_send_DMA; res is the state the operation will leave, with its bus
\* trace, pos the number of entries of that trace already done, left the
\* iterations of the loop of SPI_send_DMA still to do, txe the TXE flag.
NotRunning ==
    [pc |-> "idle", fn |-> "", args |-> <<>>, res |-> <<>>, pos |-> 0,
     left |-> 0, txe |-> 1]

\* main of the demo has not started.  pc is the statement main is at, build
\* the demo built ("fun" for DrawTest, "pio" for DrawTest_PlatformIO), phase
\* the test it shows, k the counter of popup, frame and i the counters of the
\* loops of a test, x, y, step_x and step_y the locals of the last test, loops
\* the passes of the main loop done, lfsr the state of rand8 (uint32_t
\* lfsr = 1, as its two 16-bit halves).
AtMain ==
    [pc |-> "main", build |-> "fun", phase |-> 0, k |-> 0, frame |-> 0,
     i |-> 0, x |-> 0, y |-> 0, step_x |-> 1, step_y |-> 1, loops |-> 0,
     lfsr |-> [hi |-> 0, lo |-> 1]]

\* Power on: the statics as initialized, the output registers cleared, the
\* DMA channel off, nothing written to the panel.
Init ==
    /\ cursor_x = 0
    /\ cursor_y = 0
    /\ color = WHITE
    /\ bg_color = BLACK
    /\ buffer = [i \in 0..(BufSize - 1) |-> 0]
    /\ str = [i \in 0..(StrSize - 1) |-> 0]
    /\ oob = FALSE
    /\ dc = 0
    /\ cs = 0
    /\ rst = 0
    /\ dma = [en |-> 0, maddr |-> "none", cntr |-> 0, tc |-> 0]
    /\ bus = <<>>
    /\ calls = <<>>
    /\ ops = <<>>
    /\ inited = FALSE
    /\ panel = Blank
    /\ send = Idle
    /\ run = NotRunning
    /\ demo = AtMain

\* A public operation returned with state r: store it.
Commit(r, fn, args) ==
    /\ cursor_x' = r.cursor_x
    /\ cursor_y' = r.cursor_y
    /\ color' = r.color
    /\ bg_color' = r.bg_color
    /\ buffer' = r.buffer
    /\ str' = r.str
    /\ oob' = r.oob
    /\ dc' = r.dc
    /\ cs' = r.cs
    /\ rst' = r.rst
    /\ dma' = r.dma
    /\ bus' = r.bus
    /\ calls' = r.calls
    /\ ops' = Append(ops, [fn |-> fn, args |-> args])

\* The application calls the driver after tft_init, one operation at a time.
Ready == inited /\ Len(ops) < MaxOps

Do(res, fn, args) ==
    \E r \in {res} : Commit(r, fn, args) /\ UNCHANGED <<inited, panel, send, run, demo>>

\* The same, with the panel taking the bus traffic.
DoPaint(res, fn, args) ==
    \E r \in {res} :
        /\ Commit(r, fn, args)
        /\ panel' = Paint(panel, r.bus)
        /\ UNCHANGED <<inited, send, run, demo>>

TftInit ==
    /\ ~inited
    /\ \E r \in {tft_init(Cur)} :
        Commit(r, "tft_init", <<>>) /\ inited' = TRUE /\ UNCHANGED <<panel, send, run, demo>>

(***************************************************************************)
(* The application: every public operation, on arguments within the        *)
(* display, including its corners                                          *)
(***************************************************************************)
Points == {<<0, 0>>, <<ST7735_WIDTH - 1, ST7735_HEIGHT - 1>>, <<10, 3>>}

Colors == {ORANGE, NAVY}

\* <<x, y, width, height>>
Rects == {<<0, 0, ST7735_WIDTH, ST7735_HEIGHT>>,
          <<ST7735_WIDTH - 1, ST7735_HEIGHT - 1, 1, 1>>,
          <<10, 3, 4, 5>>}

\* 'A' and '0'
Chars == {65, 48}

\* "" and "Hi"
Strings == {<<>>, <<72, 105>>}

\* The bytes of a caller's bitmap of n bytes.
Bitmap(n) == [i \in 1..n |-> (i * 7 + 3) % 256]

SetCursor ==
    \E p \in Points :
        Ready /\ Do(tft_set_cursor(Cur, p[1], p[2]), "tft_set_cursor", p)

SetColor ==
    \E c \in Colors : Ready /\ Do(tft_set_color(Cur, c), "tft_set_color", <<c>>)

SetBackgroundColor ==
    \E c \in {RED} :
        Ready /\ Do(tft_set_background_color(Cur, c),
                    "tft_set_background_color", <<c>>)

PrintChar ==
    \E c \in Chars : Ready /\ Do(tft_print_char(Cur, c), "tft_print_char", <<c>>)

PrintString ==
    \E txt \in Strings :
        Ready /\ Do(tft_print(Cur, CStr(txt), 0), "tft_print", txt)

PrintNumber ==
    \E num \in {0, -7, 12345}, width \in {0, 40}, ub \in NegateOutcomes :
        Ready /\ Do(tft_print_number(Cur, num, width, ub),
                    "tft_print_number", <<num, width>>)

DrawPixel ==
    \E p \in Points, c \in {ORANGE} :
        Ready /\ Do(tft_draw_pixel(Cur, p[1], p[2], c),
                    "tft_draw_pixel", <<p[1], p[2], c>>)

FillRect ==
    \E r \in Rects, c \in Colors :
        Ready /\ Do(tft_fill_rect(Cur, r[1], r[2], r[3], r[4], c),
                    "tft_fill_rect", <<r[1], r[2], r[3], r[4], c>>)

DrawBitmap ==
    \E r \in {<<0, 0, 1, 1>>, <<10, 3, 4, 5>>, <<ST7735_WIDTH - 2, ST7735_HEIGHT - 3, 2, 3>>} :
        Ready /\ Do(tft_draw_bitmap(Cur, r[1], r[2], r[3], r[4],
                                    Bitmap(r[3] * r[4] * 2)),
                    "tft_draw_bitmap", r)

\* A bitmap of the whole display, the largest within bounds, as the first
\* thing drawn after tft_init.
DrawSplash ==
    /\ Ready
    /\ Len(ops) = 1
    /\ Do(tft_draw_bitmap(Cur, 0, 0, ST7735_WIDTH, ST7735_HEIGHT,
                          Bitmap(ST7735_WIDTH * ST7735_HEIGHT * 2)),
          "tft_draw_bitmap", <<0, 0, ST7735_WIDTH, ST7735_HEIGHT>>)

DrawRect ==
    \E r \in Rects, c \in {NAVY} :
        Ready /\ Do(tft_draw_rect(Cur, r[1], r[2], r[3], r[4], c),
                    "tft_draw_rect", <<r[1], r[2], r[3], r[4], c>>)

DrawLine ==
    \E p \in Points, q \in Points, c \in {ORANGE} :
        Ready /\ Do(tft_draw_line(Cur, p[1], p[2], q[1], q[2], c),
                    "tft_draw_line", <<p[1], p[2], q[1], q[2], c>>)

Next ==
    \/ TftInit
    \/ SetCursor
    \/ SetColor
    \/ SetBackgroundColor
    \/ PrintChar
    \/ PrintString
    \/ PrintNumber
    \/ DrawPixel
    \/ FillRect
    \/ DrawBitmap
    \/ DrawSplash
    \/ DrawRect
    \/ DrawLine

Spec == Init /\ [][Next]_vars

(***************************************************************************)
(* An application that fills rectangles and draws pixels, with the panel   *)
(* memory following the bus                                                *)
(***************************************************************************)
\* <<x, y, width, height, colour>>
PanelFills ==
    {<<0, 0, ST7735_WIDTH, ST7735_HEIGHT, BLACK>>,
     <<10, 3, 4, 5, ORANGE>>,
     <<ST7735_WIDTH - 1, ST7735_HEIGHT - 1, 1, 1, NAVY>>,
     <<8, 8, 5, 5, NAVY>>,
     <<0, 0, ST7735_WIDTH, 1, ORANGE>>,
     <<ST7735_WIDTH - 1, 0, 1, ST7735_HEIGHT, WHITE>>}

\* <<x, y, colour>>
PanelPixels ==
    {<<10, 10, RED>>, <<0, 0, ORANGE>>,
     <<ST7735_WIDTH - 1, ST7735_HEIGHT - 1, RED>>,
     <<11, 4, BLACK>>, <<10, 10, NAVY>>, <<12, 12, ORANGE>>}

PanelFill ==
    \E r \in PanelFills :
        Ready /\ DoPaint(tft_fill_rect(Cur, r[1], r[2], r[3], r[4], r[5]),
                         "tft_fill_rect", r)

PanelPixel ==
    \E p \in PanelPixels :
        Ready /\ DoPaint(tft_draw_pixel(Cur, p[1], p[2], p[3]),
                         "tft_draw_pixel", p)

NextPanel ==
    \/ TftInit
    \/ PanelFill
    \/ PanelPixel

SpecPanel == Init /\ [][NextPanel]_vars

(***************************************************************************)
(* An application that places the cursor and prints numbers                *)
(***************************************************************************)
Numbers == {0, 7, -7, 12345, INT32_MIN, 2147483647}

Widths == {0, 10, 40}

TextSetCursor ==
    \E p \in {<<0, 0>>, <<10, 3>>, <<100, 40>>} :
        Ready /\ Do(tft_set_cursor(Cur, p[1], p[2]), "tft_set_cursor", p)

TextPrintNumber ==
    \E num \in Numbers, width \in Widths, ub \in NegateOutcomes :
        Ready /\ Do(tft_print_number(Cur, num, width, ub),
                    "tft_print_number", <<num, width>>)

NextText ==
    \/ TftInit
    \/ TextSetCursor
    \/ TextPrintNumber

SpecText == Init /\ [][NextText]_vars

(***************************************************************************)
(* An application that draws lines, each segment in both directions        *)
(***************************************************************************)
\* <<x0, y0, x1, y1>>: horizontal and vertical segments, a single point,
\* shallow and steep segments of both slopes, the diagonals of the display.
Segments ==
    {<<0, 0, ST7735_WIDTH - 1, 0>>,
     <<0, 0, 0, ST7735_HEIGHT - 1>>,
     <<10, 3, 10, 9>>,
     <<5, 70, 30, 70>>,
     <<ST7735_WIDTH - 1, ST7735_HEIGHT - 1, ST7735_WIDTH - 1, ST7735_HEIGHT - 1>>,
     <<0, 0, ST7735_WIDTH - 1, ST7735_HEIGHT - 1>>,
     <<0, ST7735_HEIGHT - 1, ST7735_WIDTH - 1, 0>>,
     <<10, 3, 14, 20>>,
     <<3, 10, 20, 14>>,
     <<20, 3, 10, 9>>,
     <<0, 0, 1, 1>>,
     <<5, 5, 8, 6>>}

Reversed == {<<g[3], g[4], g[1], g[2]>> : g \in Segments}

LineDraw ==
    \E g \in Segments \cup Reversed, c \in {ORANGE} :
        Ready /\ Do(tft_draw_line(Cur, g[1], g[2], g[3], g[4], c),
                    "tft_draw_line", <<g[1], g[2], g[3], g[4], c>>)

NextLine ==
    \/ TftInit
    \/ LineDraw

SpecLine == Init /\ [][NextLine]_vars

(***************************************************************************)
(* SPI_send_DMA statement by statement, with the DMA channel running       *)
(* beside it                                                               *)
(***************************************************************************)
\* Sizes and repeat counts of the calls.
DmaSizes == {1, 2}
Repeats == {0, 1, 5}

\* Number of passes over the memory that the channel makes during one call.
MaxPasses == 6

\* What a statement of SPI_send_DMA leaves alone.
Driver ==
    <<cursor_x, cursor_y, color, bg_color, buffer, str, oob, dc, cs, rst, bus,
      calls, inited, panel, run, demo>>

\* SPI_send_DMA(_buffer, size, repeat) is called.
DMA_Call ==
    \E size \in DmaSizes, repeat \in Repeats :
        /\ Ready
        /\ send.pc = "idle"
        /\ send' = [Idle EXCEPT !.pc = "maddr", !.size = size, !.repeat = repeat]
        /\ ops' = Append(ops, [fn |-> "SPI_send_DMA", args |-> <<size, repeat>>])
        /\ UNCHANGED <<dma, Driver>>

\* DMA1_Channel3->MADDR = (uint32_t)buffer;
DMA_SetAddress ==
    /\ send.pc = "maddr"
    /\ dma' = [dma EXCEPT !.maddr = "_buffer"]
    /\ send' = [send EXCEPT !.pc = "cntr", !.maddrs = @ + 1]
    /\ UNCHANGED <<ops, Driver>>

\* DMA1_Channel3->CNTR = size;
DMA_SetCount ==
    /\ send.pc = "cntr"
    /\ dma' = [dma EXCEPT !.cntr = send.size]
    /\ send' = [send EXCEPT !.pc = "on", !.cntrs = @ + 1]
    /\ UNCHANGED <<ops, Driver>>

\* DMA1_Channel3->CFGR |= DMA_CFGR1_EN;
DMA_TurnOn ==
    /\ send.pc = "on"
    /\ dma' = [dma EXCEPT !.en = 1]
    /\ send' = [send EXCEPT !.pc = "test", !.ons = @ + 1]
    /\ UNCHANGED <<ops, Driver>>

\* A variant of the loop test: while (--repeat).
DMA_TestPreDecrement ==
    /\ send.pc = "test"
    /\ send' = [send EXCEPT !.pc = IF U16(send.repeat - 1) # 0 THEN "clear" ELSE "off",
                            !.repeat = U16(@ - 1)]
    /\ UNCHANGED <<dma, ops, Driver>>

\* while (repeat--)
DMA_Test ==
    /\ send.pc = "test"
    /\ send' = [send EXCEPT !.pc = IF send.repeat # 0 THEN "clear" ELSE "off",
                            !.repeat = U16(@ - 1)]
    /\ UNCHANGED <<dma, ops, Driver>>

\* DMA1->INTFCR = DMA1_FLAG_TC3;
DMA_ClearFlag ==
    /\ send.pc = "clear"
    /\ dma' = [dma EXCEPT !.tc = 0]
    /\ send' = [send EXCEPT !.pc = "wait", !.clears = @ + 1]
    /\ UNCHANGED <<ops, Driver>>

\* while (!(DMA1->INTFR & DMA1_FLAG_TC3)) ;  the loop is left once the flag
\* is set.
DMA_Wait ==
    /\ send.pc = "wait"
    /\ dma.tc = 1
    /\ send' = [send EXCEPT !.pc = "test", !.waits = @ + 1]
    /\ UNCHANGED <<dma, ops, Driver>>

\* DMA1_Channel3->CFGR &= ~DMA_CFGR1_EN;  and the function returns.
DMA_TurnOff ==
    /\ send.pc = "off"
    /\ dma' = [dma EXCEPT !.en = 0]
    /\ send' = [send EXCEPT !.pc = "idle", !.offs = @ + 1]
    /\ UNCHANGED <<ops, Driver>>

\* The channel, while switched on, moves one byte to the SPI data register.
\* After the last byte of a pass it raises the flag and, in circular mode,
\* reloads its counter.
DMA_Channel ==
    /\ dma.en = 1
    /\ dma.cntr > 0
    /\ send.passes < MaxPasses
    /\ dma' = [dma EXCEPT !.cntr = IF @ = 1 THEN send.size ELSE @ - 1,
                          !.tc = IF dma.cntr = 1 THEN 1 ELSE @]
    /\ send' = [send EXCEPT !.passes = IF dma.cntr = 1 THEN @ + 1 ELSE @]
    /\ UNCHANGED <<ops, Driver>>

NextDMA ==
    \/ TftInit
    \/ DMA_Call
    \/ DMA_SetAddress
    \/ DMA_SetCount
    \/ DMA_TurnOn
    \/ DMA_Test
    \/ DMA_ClearFlag
    \/ DMA_Wait
    \/ DMA_TurnOff
    \/ DMA_Channel

SpecDMA == Init /\ [][NextDMA]_vars

(***************************************************************************)
(* The copy of the driver in Examples/Mario_PlatformIO/src/st7735.c: its   *)
(* protocol layer and its text layer.  The cursor is a pair of uint8_t,    *)
(* every write selects and releases the chip itself, and the glyph goes    *)
(* out pixel by pixel.  Its header is not among the sources; the display   *)
(* size and the offsets are those of Examples/DrawTest/st7735.h.           *)
(***************************************************************************)
\* BEGIN_WRITE(); SEND_COMMAND(); SPI_send(cmd); END_WRITE();
Mario_write_command_8(s, cmd) ==
    END_WRITE(SPI_send(COMMAND_MODE(START_WRITE(s)), cmd))

\* BEGIN_WRITE(); SEND_DATA(); SPI_send(data); END_WRITE();
Mario_write_data_8(s, data) ==
    END_WRITE(SPI_send(DATA_MODE(START_WRITE(s)), data))

Mario_write_data_16(s, data) ==
    END_WRITE(SPI_send(SPI_send(DATA_MODE(START_WRITE(s)), data \div 256), data))

\* The parameters are uint8_t: x0 >> 8 is 0 and x0 & 0xFF is x0.
Mario_tft_set_window(s, x0, y0, x1, y1) ==
    LET s0  == Call(s, "tft_set_window", <<x0, y0, x1, y1>>)
        s1  == Mario_write_command_8(s0, ST7735_CASET)
        s2  == Mario_write_data_8(s1, x0 \div 256)
        s3  == Mario_write_data_8(s2, x0 % 256)
        s4  == Mario_write_data_8(s3, x1 \div 256)
        s5  == Mario_write_data_8(s4, x1 % 256)
        s6  == Mario_write_command_8(s5, ST7735_RASET)
        s7  == Mario_write_data_8(s6, y0 \div 256)
        s8  == Mario_write_data_8(s7, y0 % 256)
        s9  == Mario_write_data_8(s8, y1 \div 256)
        s10 == Mario_write_data_8(s9, y1 % 256)
    IN  Mario_write_command_8(s10, ST7735_RAMWR)

\* The inner loop of tft_print_char, for (j = 0; j < 5; j++), in row i.
RECURSIVE Mario_GlyphCols(_, _, _, _)
Mario_GlyphCols(s, start, i, j) ==
    IF j < 5
    THEN Mario_GlyphCols(Mario_write_data_16(s, IF BitSet(font(start + j), i)
                                                THEN s.color ELSE s.bg_color),
                         start, i, j + 1)
    ELSE s

\* The outer loop, for (i = 0; i < 7; i++).
RECURSIVE Mario_GlyphRows(_, _, _)
Mario_GlyphRows(s, start, i) ==
    IF i < 7
    THEN CHOOSE r \in {Mario_GlyphRows(t, start, i + 1) :
                          t \in {Mario_GlyphCols(s, start, i, 0)}} : TRUE
    ELSE s

\* tft_set_window(_cursor_x, _cursor_y, _cursor_x + 4, _cursor_x + 6), each
\* argument converted to uint8_t, then the 35 pixels.
Mario_tft_print_char(s, c) ==
    LET s0 == Call(s, "tft_print_char", <<c>>)
    IN  CHOOSE r \in {Mario_GlyphRows(s1, c + c * 4, 0) :
            s1 \in {Mario_tft_set_window(s0, U8(s0.cursor_x), U8(s0.cursor_y),
                                         U8(s0.cursor_x + 4),
                                         U8(s0.cursor_x + 6))}} : TRUE

\* while (*str) { tft_print_char(*str++); _cursor_x += 6; }
RECURSIVE Mario_PrintLoop(_, _, _)
Mario_PrintLoop(s, mem, p) ==
    IF mem[p] = 0 THEN s
    ELSE LET s1 == Mario_tft_print_char(s, mem[p])
         IN  CHOOSE r \in {Mario_PrintLoop(t, mem, p + 1) :
                    t \in {[s1 EXCEPT !.cursor_x = U8(@ + 6)]}} : TRUE

Mario_tft_print(s, mem, p) == Mario_PrintLoop(Call(s, "tft_print", <<p>>), mem, p)

Mario_tft_set_cursor(s, x, y) ==
    [Call(s, "tft_set_cursor", <<x, y>>) EXCEPT
        !.cursor_x = U8(x + ST7735_X_OFFSET),
        !.cursor_y = U8(y + ST7735_Y_OFFSET)]

\* write_data_8 for each byte of seq from index k on.
RECURSIVE Mario_write_bytes(_, _, _)
Mario_write_bytes(s, seq, k) ==
    IF k > Len(seq) THEN s
    ELSE CHOOSE r \in {Mario_write_bytes(t, seq, k + 1) :
                          t \in {Mario_write_data_8(s, seq[k])}} : TRUE

Mario_tft_init(s) ==
    LET s0  == SPI_init(Call(s, "tft_init", <<>>))
        s1  == RESET_LOW(s0)
        s2  == Delay_Ms(s1, ST7735_RST_DELAY)
        s3  == RESET_HIGH(s2)
        s4  == Delay_Ms(s3, ST7735_RST_DELAY)
        s5  == Mario_write_command_8(s4, ST7735_SLPOUT)
        s6  == Delay_Ms(s5, ST7735_SLPOUT_DELAY)
        s7  == Mario_write_command_8(s6, ST7735_MADCTL)
        s8  == Mario_write_data_8(s7, ST7735_MADCTL_MY + ST7735_MADCTL_MV
                                      + ST7735_MADCTL_BGR)
        s9  == Mario_write_command_8(s8, ST7735_COLMOD)
        s10 == Mario_write_data_8(s9, 5)
        s11 == Mario_write_command_8(s10, ST7735_GMCTRP1)
        s12 == Mario_write_bytes(s11, gamma_p, 1)
        s13 == Mario_write_command_8(s12, ST7735_GMCTRN1)
        s14 == Mario_write_bytes(s13, gamma_n, 1)
        s15 == Delay_Ms(s14, 10)
        s16 == Mario_write_command_8(s15, ST7735_INVON)
        s17 == Mario_write_command_8(s16, ST7735_NORON)
        s18 == Delay_Ms(s17, 10)
        s19 == Mario_write_command_8(s18, ST7735_DISPON)
    IN  Delay_Ms(s19, 10)

\* Power on: _color = BLACK and _bg_color = WHITE in this copy.
Mario_Init ==
    /\ cursor_x = 0
    /\ cursor_y = 0
    /\ color = BLACK
    /\ bg_color = WHITE
    /\ buffer = [i \in 0..(BufSize - 1) |-> 0]
    /\ str = [i \in 0..(StrSize - 1) |-> 0]
    /\ oob = FALSE
    /\ dc = 0
    /\ cs = 0
    /\ rst = 0
    /\ dma = [en |-> 0, maddr |-> "none", cntr |-> 0, tc |-> 0]
    /\ bus = <<>>
    /\ calls = <<>>
    /\ ops = <<>>
    /\ inited = FALSE
    /\ panel = Blank
    /\ send = Idle
    /\ run = NotRunning
    /\ demo = AtMain

Mario_TftInit ==
    /\ ~inited
    /\ \E r \in {Mario_tft_init(Cur)} :
        Commit(r, "tft_init", <<>>) /\ inited' = TRUE /\ UNCHANGED <<panel, send, run, demo>>

\* Cursor positions on and off the line x + 1 = y + 26.
\* while (digits) { str[--digits] = ' '; }
RECURSIVE Mario_SpaceFill(_, _)
Mario_SpaceFill(s, digits) ==
    IF digits # 0
    THEN Mario_SpaceFill(StrStore(s, U8(digits - 1), 32), U8(digits - 1))
    ELSE s

\* tft_print_number(num) of the Mario copy: the digits and the sign as in
\* DrawTest, then spaces down to index 0, and the whole string is printed.
Mario_tft_print_number(s, num, ub) ==
    LET s0 == Call(s, "tft_print_number", <<num>>)
        neg == IF num < 0 THEN 1 ELSE 0
        n1 == IF num < 0 THEN Negate(num, ub) ELSE [v |-> num, uns |-> FALSE]
        s1 == StrStore(s0, 11, 0)
        d  == DigitLoop(s1, n1.v, n1.uns, 11)
        p2 == IF d.position = 11 THEN U8(d.position - 1) ELSE d.position
        s2 == IF d.position = 11 THEN StrStore(d.s, p2, 48) ELSE d.s
        p3 == IF neg = 1 THEN U8(p2 - 1) ELSE p2
        s3 == IF neg = 1 THEN StrStore(s2, p3, 45) ELSE s2
        s4 == Mario_SpaceFill(s3, p3)
    IN  Mario_tft_print(s4, s4.str, 0)

Mario_Points == {<<0, 0>>, <<10, 3>>, <<25, 0>>, <<40, 15>>, <<100, 40>>, <<150, 70>>}

Mario_SetCursor ==
    \E p \in Mario_Points :
        Ready /\ Do(Mario_tft_set_cursor(Cur, p[1], p[2]), "tft_set_cursor", p)

Mario_PrintChar ==
    \E c \in Chars :
        Ready /\ Do(Mario_tft_print_char(Cur, c), "tft_print_char", <<c>>)

Mario_Print ==
    \E txt \in Strings :
        Ready /\ Do(Mario_tft_print(Cur, CStr(txt), 0), "tft_print", txt)

Mario_PrintNumber ==
    \E num \in Numbers, ub \in NegateOutcomes :
        Ready /\ Do(Mario_tft_print_number(Cur, num, ub), "tft_print_number",
                    <<num>>)

NextMario ==
    \/ Mario_TftInit
    \/ Mario_SetCursor
    \/ Mario_PrintChar
    \/ Mario_Print
    \/ Mario_PrintNumber

SpecMario == Mario_Init /\ [][NextMario]_vars

(***************************************************************************)
(* SPI_send_DMA of the Mario copy statement by statement.  Its first three *)
(* statements and its last are those of the DrawTest copy; its loop waits  *)
(* for the flag first and clears it afterwards.                            *)
(***************************************************************************)
\* while (repeat--): on to the wait loop.
Mario_DMA_Test ==
    /\ send.pc = "test"
    /\ send' = [send EXCEPT !.pc = IF send.repeat # 0 THEN "wait" ELSE "off",
                            !.repeat = U16(@ - 1)]
    /\ UNCHANGED <<dma, ops, Driver>>

\* while (!(DMA1->INTFR & DMA1_FLAG_TC3)) ;  on to the clearing of the flag.
Mario_DMA_Wait ==
    /\ send.pc = "wait"
    /\ dma.tc = 1
    /\ send' = [send EXCEPT !.pc = "clear", !.waits = @ + 1]
    /\ UNCHANGED <<dma, ops, Driver>>

\* DMA1->INTFCR = DMA1_FLAG_TC3;  back to the loop test.
Mario_DMA_ClearFlag ==
    /\ send.pc = "clear"
    /\ dma' = [dma EXCEPT !.tc = 0]
    /\ send' = [send EXCEPT !.pc = "test", !.clears = @ + 1]
    /\ UNCHANGED <<ops, Driver>>

NextMarioDMA ==
    \/ Mario_TftInit
    \/ DMA_Call
    \/ DMA_SetAddress
    \/ DMA_SetCount
    \/ DMA_TurnOn
    \/ Mario_DMA_Test
    \/ Mario_DMA_Wait
    \/ Mario_DMA_ClearFlag
    \/ DMA_TurnOff
    \/ DMA_Channel

SpecMarioDMA == Mario_Init /\ [][NextMarioDMA]_vars

(***************************************************************************)
(* Properties                                                              *)
(***************************************************************************)
\* The public operation that returned last.
Last == ops[Len(ops)]
Returned(fn) == ops # <<>> /\ Last.fn = fn

\* The transfers of the DMA channel on a bus trace.
Dmas(b) == SelectSeq(b, LAMBDA e : e.ev = "dma")

\* A rectangle within the display.
InBounds(x, y, w, h) ==
    w >= 1 /\ h >= 1 /\ x + w <= ST7735_WIDTH /\ y + h <= ST7735_HEIGHT

\* C1: tft_fill_rect(x, y, w, h, colour) on a rectangle within the display
\* opens the window (x+1, y+26)-(x+w, y+h+25); the scratch row of 2w bytes,
\* w times colour high byte then low byte, goes to the DMA channel once with
\* repeat = h; what is streamed into the window is w*h times the colour.
C1_FillRectStream ==
    Returned("tft_fill_rect")
    /\ InBounds(Last.args[1], Last.args[2], Last.args[3], Last.args[4])
    => LET x == Last.args[1]
           y == Last.args[2]
           w == Last.args[3]
           h == Last.args[4]
           c == Last.args[5]
           wire == Wire(bus)
       IN  /\ ~oob
           /\ Windows(bus) = <<[x0 |-> x + 1, x1 |-> x + w,
                                y0 |-> y + 26, y1 |-> y + h + 25]>>
           /\ Len(Dmas(bus)) = 1
           /\ Dmas(bus)[1].val = 2 * w
           /\ Dmas(bus)[1].rep = h
           /\ Dmas(bus)[1].dc = 1
           /\ Dmas(bus)[1].cs = 0
           /\ Dmas(bus)[1].data =
                  [i \in 1..(2 * w) |-> IF i % 2 = 1 THEN c \div 256 ELSE c % 256]
           /\ Len(wire) = 12
           /\ wire[12].ev = "dma"
           /\ StreamLen(wire, 12, Len(wire)) = 2 * w * h
           /\ \A k \in 0..(w * h - 1) :
                  /\ StreamByte(wire, 12, 2 * k) = c \div 256
                  /\ StreamByte(wire, 12, 2 * k + 1) = c % 256

\* The fill of a whole row in a colour whose two bytes differ has returned.
C1_Witness ==
    /\ Returned("tft_fill_rect")
    /\ Last.args = <<0, 0, ST7735_WIDTH, 1, ORANGE>>
    /\ Len(Dmas(bus)) = 1
    /\ Dmas(bus)[1].val = 320

\* The cells, in display coordinates, that a public operation covers, and
\* the colour it gives them.
Covers(op, x, y) ==
    IF op.fn = "tft_fill_rect"
    THEN /\ x >= op.args[1] /\ x < op.args[1] + op.args[3]
         /\ y >= op.args[2] /\ y < op.args[2] + op.args[4]
    ELSE IF op.fn = "tft_draw_pixel" THEN x = op.args[1] /\ y = op.args[2]
    ELSE FALSE

OpColor(op) == IF op.fn = "tft_fill_rect" THEN op.args[5] ELSE op.args[3]

\* The colour that the last operation covering display cell (x, y) gave it,
\* -1 when no operation covered it.
LastColor(x, y) ==
    LET ks == {k \in 1..Len(ops) : Covers(ops[k], x, y)}
    IN  IF ks = {} THEN -1
        ELSE OpColor(ops[CHOOSE k \in ks : \A j \in ks : j <= k])

\* C2: after any sequence of tft_fill_rect and tft_draw_pixel calls within
\* the display, every cell of panel memory holds the colour of the last call
\* whose window covered it, and no other cell was written; after
\* tft_fill_rect(0,0,160,80,BLACK) and tft_draw_pixel(10,10,RED) the cell
\* (10,10) is RED and every other cell of the display is BLACK.
C2_LastWriterWins ==
    /\ \A a \in PanelCells :
          Cell(panel, a) = LastColor((a % PanelCols) - 1, (a \div PanelCols) - 26)
    /\ (/\ Len(ops) = 3
        /\ ops[2] = [fn |-> "tft_fill_rect", args |-> <<0, 0, 160, 80, BLACK>>]
        /\ ops[3] = [fn |-> "tft_draw_pixel", args |-> <<10, 10, RED>>])
       => \A x \in 0..159, y \in 0..79 :
              Cell(panel, Addr(x + 1, y + 26))
                  = IF x = 10 /\ y = 10 THEN RED ELSE BLACK

\* The screen was filled with BLACK and the pixel (10,10) drawn RED.
C2_Witness ==
    /\ Len(ops) = 3
    /\ ops[2] = [fn |-> "tft_fill_rect", args |-> <<0, 0, 160, 80, BLACK>>]
    /\ ops[3] = [fn |-> "tft_draw_pixel", args |-> <<10, 10, RED>>]
    /\ Cell(panel, Addr(11, 36)) = RED
    /\ Cell(panel, Addr(12, 36)) = BLACK

\* The entries of calls for function fn, in order.
CallsOf(fn) == SelectSeq(calls, LAMBDA c : c.fn = fn)

\* The first call of tft_set_window after entry i of calls.
NextWindowCall(i) ==
    LET js == {j \in (i + 1)..Len(calls) : calls[j].fn = "tft_set_window"}
    IN  calls[CHOOSE j \in js : \A k \in js : j <= k]

\* The functions that take a display position and open a window at it.
Positioned ==
    {"tft_draw_pixel", "tft_fill_rect", "tft_draw_bitmap",
     "_tft_draw_fast_h_line", "_tft_draw_fast_v_line"}

Min(a, b) == IF a < b THEN a ELSE b

\* C3: the window start sent after CASET and RASET is the display position
\* plus (1, 26): for every pixel, filled rectangle, bitmap and fast line
\* drawn (so for the sides of a rectangle and every pixel of a Bresenham
\* line), for the smaller endpoint of a horizontal or vertical line, and for
\* a glyph printed at the position given to tft_set_cursor.
C3_WindowOffset ==
    LET wins == Windows(bus)
        wc == CallsOf("tft_set_window")
    IN  /\ \* what is on the bus is what tft_set_window was called with
           /\ Len(wins) = Len(wc)
           /\ \A k \in 1..Len(wc) :
                  wins[k] = [x0 |-> wc[k].args[1], y0 |-> wc[k].args[2],
                             x1 |-> wc[k].args[3], y1 |-> wc[k].args[4]]
        /\ \A i \in 1..Len(calls) :
              /\ calls[i].fn \in Positioned
                 => /\ NextWindowCall(i).args[1] = calls[i].args[1] + 1
                    /\ NextWindowCall(i).args[2] = calls[i].args[2] + 26
              /\ calls[i].fn = "tft_print_char"
                 => /\ NextWindowCall(i).args[1] = calls[i].cur[1]
                    /\ NextWindowCall(i).args[2] = calls[i].cur[2]
        /\ Returned("tft_set_cursor")
           => cursor_x = Last.args[1] + 1 /\ cursor_y = Last.args[2] + 26
        /\ Returned("tft_draw_rect")
           => LET x == Last.args[1]
                  y == Last.args[2]
                  w == Last.args[3]
                  h == Last.args[4]
              IN  [k \in 1..4 |-> <<wins[k].x0, wins[k].y0>>]
                  = << <<x + 1, y + 26>>, <<x + 1, y + h - 1 + 26>>,
                       <<x + 1, y + 26>>, <<x + w - 1 + 1, y + 26>> >>
        /\ Returned("tft_draw_line")
           => LET a == Last.args
                  first == wins[1]
                  last == wins[Len(wins)]
              IN  IF a[1] = a[3] \/ a[2] = a[4]
                  THEN /\ Len(wins) = 1
                       /\ first.x0 = Min(a[1], a[3]) + 1
                       /\ first.y0 = Min(a[2], a[4]) + 26
                  ELSE {<<first.x0, first.y0>>, <<last.x0, last.y0>>}
                       = {<<a[1] + 1, a[2] + 26>>, <<a[3] + 1, a[4] + 26>>}
        /\ (/\ Len(ops) >= 2
            /\ ops[Len(ops) - 1].fn = "tft_set_cursor"
            /\ Last.fn \in {"tft_print_char", "tft_print", "tft_print_number"}
            /\ Len(wins) > 0)
           => LET x == ops[Len(ops) - 1].args[1]
                  y == ops[Len(ops) - 1].args[2]
                  pad == wins[1].x0 - (x + 1)
              IN  /\ wins[1].y0 = y + 26
                  /\ IF Last.fn = "tft_print_number"
                     THEN pad >= 0 /\ pad <= Last.args[2]
                     ELSE pad = 0

\* A glyph was printed at the far corner given to tft_set_cursor.
C3_Witness ==
    /\ Len(ops) = 3
    /\ ops[2] = [fn |-> "tft_set_cursor", args |-> <<159, 79>>]
    /\ ops[3].fn = "tft_print_char"
    /\ Len(Windows(bus)) = 1
    /\ Windows(bus)[1].x0 = 160
    /\ Windows(bus)[1].y0 = 105

\* The bus trace without the DC and CS pin writes: reset line writes, delays
\* and bytes, each byte with the DC level it went out under.
Events(b) == SelectSeq(b, LAMBDA e : e.ev \in {"rst", "delay", "spi", "dma"})

Brief(e) ==
    IF e.ev = "rst" THEN <<"reset", e.val>>
    ELSE IF e.ev = "delay" THEN <<"delay", e.val>>
    ELSE IF e.ev = "spi" THEN <<IF e.dc = 0 THEN "command" ELSE "data", e.val>>
    ELSE <<IF e.dc = 0 THEN "command" ELSE "data", e.data>>

\* C9: the events of tft_init, in order: reset low, 50 ms, reset high,
\* 50 ms, 0x11, 120 ms, 0x36 and the data byte MY|MV|BGR, 0x3A and the data
\* byte 0x05, 0xE0 and 16 data bytes, 0xE1 and 16 data bytes, 10 ms, 0x21,
\* 0x13, 10 ms, 0x29, 10 ms.
C9_InitSequence ==
    Returned("tft_init")
    => /\ [k \in 1..Len(Events(bus)) |-> Brief(Events(bus)[k])]
          = << <<"reset", 0>>, <<"delay", 50>>, <<"reset", 1>>, <<"delay", 50>>,
               <<"command", 17>>, <<"delay", 120>>,
               <<"command", 54>>,
               <<"data", ST7735_MADCTL_MY + ST7735_MADCTL_MV + ST7735_MADCTL_BGR>>,
               <<"command", 58>>, <<"data", 5>>,
               <<"command", 224>>, <<"data", gamma_p>>,
               <<"command", 225>>, <<"data", gamma_n>>,
               <<"delay", 10>>,
               <<"command", 33>>, <<"command", 19>>, <<"delay", 10>>,
               <<"command", 41>>, <<"delay", 10>> >>
       /\ Len(gamma_p) = 16
       /\ Len(gamma_n) = 16
       /\ \A k \in 1..Len(Dmas(bus)) :
              Dmas(bus)[k].val = 16 /\ Dmas(bus)[k].rep = 1

\* tft_init has returned and the display was switched on.
C9_Witness ==
    /\ Returned("tft_init")
    /\ inited
    /\ \E k \in 1..Len(bus) : IsCmd(bus[k], ST7735_DISPON)

\* The bytes that tft_set_window(x0, y0, x1, y1) is to put on the bus, each
\* with the level of the DC line: 0 command, 1 data.
WindowFrame(x0, y0, x1, y1) ==
    << <<0, 42>>,
       <<1, x0 \div 256>>, <<1, x0 % 256>>, <<1, x1 \div 256>>, <<1, x1 % 256>>,
       <<0, 43>>,
       <<1, y0 \div 256>>, <<1, y0 % 256>>, <<1, y1 \div 256>>, <<1, y1 % 256>>,
       <<0, 44>> >>

Framed(w) == [k \in 1..Len(w) |-> <<w[k].dc, w[k].val>>]

\* C10: every call of tft_set_window(x0, y0, x1, y1) puts 11 bytes on the
\* bus: 0x2A as a command, the high and the low byte of x0 and of x1 as
\* data, 0x2B as a command, the high and the low byte of y0 and of y1 as
\* data, 0x2C as a command, and nothing after it.
C10_SetWindowFrame ==
    \A i \in 1..Len(calls) :
        calls[i].fn = "tft_set_window"
        => LET a == calls[i].args
               after == Wire(SubSeq(bus, calls[i].at + 1, Len(bus)))
               alone == Wire(tft_set_window(Cur, a[1], a[2], a[3], a[4]).bus)
           IN  /\ Len(after) >= 11
               /\ Framed(SubSeq(after, 1, 11)) = WindowFrame(a[1], a[2], a[3], a[4])
               /\ \A k \in 1..11 : after[k].ev = "spi"
               /\ Framed(alone) = WindowFrame(a[1], a[2], a[3], a[4])

\* tft_set_window was called with coordinates above 255 and below.
C10_Witness ==
    \E i \in 1..Len(calls) :
        /\ calls[i].fn = "tft_set_window"
        /\ calls[i].args = <<11, 29, 14, 33>>
        /\ Len(Wire(bus)) >= 11

\* The decimal digits of n >= 0 as character codes, most significant first.
RECURSIVE Digits(_)
Digits(n) == IF n < 10 THEN <<48 + n>> ELSE Append(Digits(n \div 10), 48 + (n % 10))

\* The decimal representation of an int32_t as character codes.  For n < 0
\* the last digit and the digits before it are taken apart without negating
\* n itself.
Decimal(n) ==
    IF n >= 0 THEN Digits(n)
    ELSE IF n > -10 THEN <<45>> \o Digits(-n)
    ELSE <<45>> \o Append(Digits(-((n + 9) \div 10)), 48 + ((10 - (n % 10)) % 10))

\* The characters passed to tft_print_char, in order.
PrintedChars ==
    [k \in 1..Len(CallsOf("tft_print_char")) |->
        CallsOf("tft_print_char")[k].args[1]]

\* C4: the characters that tft_print_number(num, width) passes to
\* tft_print_char spell the decimal representation of num: '-' first exactly
\* when num < 0, then the digits, most significant first, without leading
\* zeros, "0" for zero.
C4_DecimalText ==
    Returned("tft_print_number") => PrintedChars = Decimal(Last.args[1])

\* C5: tft_print_number(num, width) prints the n characters of num, leaves
\* the cursor row alone and moves cursor x by 6n plus the padding, which is
\* width - (6n - 1) when width > 6n - 1 and 0 otherwise; with padding the last
\* glyph ends in column start + width - 1, without it the first glyph starts
\* at the cursor.
C5_CursorAdvance ==
    Returned("tft_print_number")
    => LET start == calls[1].cur
           width == Last.args[2]
           n == Len(PrintedChars)
           pad == IF width > 6 * n - 1 THEN width - (6 * n - 1) ELSE 0
           wins == Windows(bus)
       IN  /\ n = Len(Decimal(Last.args[1]))
           /\ Len(wins) = n
           /\ cursor_y = start[2]
           /\ cursor_x = start[1] + pad + 6 * n
           /\ \A k \in 1..n : wins[k].y0 = start[2] /\ wins[k].y1 = start[2] + 6
           /\ \A k \in 1..n : wins[k].x0 = start[1] + pad + 6 * (k - 1)
           /\ \A k \in 1..n : wins[k].x1 = wins[k].x0 + 4
           /\ width > 6 * n - 1 => wins[n].x1 = start[1] + width - 1
           /\ width <= 6 * n - 1 => wins[1].x0 = start[1]

\* 12345 was printed in a field of 40 columns, 11 columns of padding before
\* it.
C5_Witness ==
    /\ Returned("tft_print_number")
    /\ Last.args = <<12345, 40>>
    /\ Len(PrintedChars) = 5
    /\ cursor_x = calls[1].cur[1] + 41

\* The same for every num whose negation is defined, that is for every num
\* but the least int32_t.
C4_DecimalTextDefined ==
    Returned("tft_print_number") /\ Last.args[1] # INT32_MIN
    => PrintedChars = Decimal(Last.args[1])

\* The least int32_t was printed by a build whose negation wraps: each
\* remainder is negative, and the text is "-./,),(-*,(".
C4_Witness ==
    /\ Returned("tft_print_number")
    /\ Last.args[1] = INT32_MIN
    /\ PrintedChars = <<45, 46, 47, 44, 41, 44, 40, 45, 42, 44, 40>>

\* The least int32_t was printed by a build that divides the bits of num as
\* an unsigned number: the text is "-2147483648".
C4_UnsignedText ==
    /\ Returned("tft_print_number")
    /\ Last.args[1] = INT32_MIN
    /\ PrintedChars = <<45, 50, 49, 52, 55, 52, 56, 51, 54, 52, 56>>

Max(a, b) == IF a > b THEN a ELSE b

\* The arguments of the tft_draw_pixel calls in a trace of calls, in order.
PixelCalls(trace) ==
    LET px == SelectSeq(trace, LAMBDA c : c.fn = "tft_draw_pixel")
    IN  [k \in 1..Len(px) |-> px[k].args]

\* This step is a call of tft_draw_line.
LineStep == Len(ops') = Len(ops) + 1 /\ ops'[Len(ops')].fn = "tft_draw_line"

\* C6: a call tft_draw_line(x0, y0, x1, y1, c) with x0 = x1 or y0 = y1 puts
\* on the bus what the call with the endpoints exchanged, made in the same
\* state, would put there, and what the fast vertical or horizontal line from
\* the smaller endpoint with length |difference| + 1 would put there; the
\* cells painted are those of the segment, endpoints included.
C6_FastLineSwap ==
    [][LineStep
       => LET a == ops'[Len(ops')].args
          IN  a[1] = a[3] \/ a[2] = a[4]
              => /\ bus' = tft_draw_line(Cur, a[3], a[4], a[1], a[2], a[5]).bus
                 /\ bus' = IF a[1] = a[3]
                           THEN _tft_draw_fast_v_line(Cur, a[1], Min(a[2], a[4]),
                                    Max(a[2], a[4]) - Min(a[2], a[4]) + 1,
                                    a[5]).bus
                           ELSE _tft_draw_fast_h_line(Cur, Min(a[1], a[3]), a[2],
                                    Max(a[1], a[3]) - Min(a[1], a[3]) + 1,
                                    a[5]).bus
                 /\ Painted(bus') = {<<x, y>> : x \in Min(a[1], a[3])..Max(a[1], a[3]),
                                               y \in Min(a[2], a[4])..Max(a[2], a[4])}
                 /\ ~oob'
      ]_vars

\* A vertical line was drawn from its lower end to its upper end.
C6_Witness ==
    /\ Returned("tft_draw_line")
    /\ Last.args = <<10, 9, 10, 3, ORANGE>>
    /\ Painted(bus) = {<<10, y>> : y \in 3..9}

\* C7: a call tft_draw_line(x0, y0, x1, y1, c) with x0 # x1 and y0 # y1
\* makes the tft_draw_pixel calls, in the same order, that the call with the
\* endpoints exchanged, made in the same state, would make; the two paint
\* the same set of cells, both endpoints among them.
C7_BresenhamSwap ==
    [][LineStep
       => LET a == ops'[Len(ops')].args
              rev == tft_draw_line(Cur, a[3], a[4], a[1], a[2], a[5])
          IN  a[1] # a[3] /\ a[2] # a[4]
              => /\ PixelCalls(calls') = PixelCalls(rev.calls)
                 /\ Painted(bus') = Painted(rev.bus)
                 /\ Painted(bus') = {<<p[1], p[2]>> : p \in
                        {PixelCalls(calls')[k] : k \in 1..Len(PixelCalls(calls'))}}
                 /\ <<a[1], a[2]>> \in Painted(bus')
                 /\ <<a[3], a[4]>> \in Painted(bus')
      ]_vars

\* A steep line was drawn from its right end to its left end.
C7_Witness ==
    /\ Returned("tft_draw_line")
    /\ Last.args = <<14, 20, 10, 3, ORANGE>>
    /\ Len(PixelCalls(calls)) = 18
    /\ PixelCalls(calls)[1] = <<10, 3, ORANGE>>
    /\ PixelCalls(calls)[18] = <<14, 20, ORANGE>>

\* C8: a call SPI_send_DMA(buffer, size, R) writes the address and the count
\* once each, then switches the channel on once, then clears the flag and
\* leaves the wait loop R times, a wait after each clear, and has switched
\* the channel off when it returns (for R = 0 without clearing or waiting);
\* the channel is off whenever no call is in progress.
C8_SendCycles ==
    /\ send.pc = "idle" => dma.en = 0
    /\ send.pc \in {"test", "clear", "wait", "off"}
       => /\ dma.en = 1
          /\ dma.maddr = "_buffer"
          /\ send.maddrs = 1 /\ send.cntrs = 1 /\ send.ons = 1 /\ send.offs = 0
    /\ send.pc \in {"maddr", "cntr", "on"}
       => send.clears = 0 /\ send.waits = 0 /\ send.ons = 0 /\ dma.en = 0
    /\ send.pc = "wait" => send.clears = send.waits + 1
    /\ send.pc # "wait" => send.clears = send.waits
    /\ send.pc \in {"clear", "wait"} => send.waits < Last.args[2]
    /\ send.pc = "off" => send.waits = Last.args[2]
    /\ send.pc = "idle" /\ Returned("SPI_send_DMA")
       => /\ send.maddrs = 1 /\ send.cntrs = 1 /\ send.ons = 1 /\ send.offs = 1
          /\ send.clears = Last.args[2]
          /\ send.waits = Last.args[2]
          /\ send.passes >= Last.args[2]

\* A call with repeat = 5 has returned.
C8_Witness ==
    /\ send.pc = "idle"
    /\ Returned("SPI_send_DMA")
    /\ Last.args[2] = 5
    /\ send.waits = 5
    /\ dma.en = 0

\* The position in bus of the last thing done by call i of tft_set_window:
\* the function does the same number of things whatever the state.
WindowReturn(i) ==
    calls[i].at + Len(tft_set_window(Cur, calls[i].args[1], calls[i].args[2],
                                     calls[i].args[3], calls[i].args[4]).bus)

\* C11 as stated: when tft_set_window returns, the DC line is at data.
C11_SetWindowLeavesData ==
    \A i \in 1..Len(calls) :
        calls[i].fn = "tft_set_window" => bus[WindowReturn(i)].dc = 1

\* C11: when tft_set_window returns, the DC line is at command, where the
\* RAMWR byte left it; the caller puts the line to data (DATA_MODE, or the
\* first statement of write_data_16) before the first byte of the stream,
\* and that byte goes out as data.
C11_SetWindowLeavesCommand ==
    \A i \in 1..Len(calls) :
        calls[i].fn = "tft_set_window"
        => LET r == WindowReturn(i)
               a == calls[i].args
           IN  /\ r + 2 <= Len(bus)
               /\ IsCmd(bus[r], ST7735_RAMWR)
               /\ bus[r].dc = 0
               /\ tft_set_window(Cur, a[1], a[2], a[3], a[4]).dc = 0
               /\ bus[r + 1].ev = "dc" /\ bus[r + 1].val = 1
               /\ bus[r + 2].ev \in {"spi", "dma"} /\ bus[r + 2].dc = 1

\* tft_fill_rect has called tft_set_window, which returned with the DC line
\* at command, and has then put the line to data for the DMA transfer.
C11_Witness ==
    /\ Returned("tft_fill_rect")
    /\ \E i \in 1..Len(calls) :
          /\ calls[i].fn = "tft_set_window"
          /\ bus[WindowReturn(i)].dc = 0
          /\ bus[WindowReturn(i) + 1].ev = "dc"
          /\ bus[WindowReturn(i) + 2].ev = "dma"

\* An entry of the bus trace that carries bytes.
IsWire(e) == e.ev \in {"spi", "dma"}

\* Entry j of bus is the first one after entry k that carries bytes.
FirstWireAfter(k, j) ==
    /\ j > k
    /\ IsWire(bus[j])
    /\ \A i \in (k + 1)..(j - 1) : ~IsWire(bus[i])

\* C12: every byte, from SPI_send or from the DMA channel, goes out with CS
\* low; CS is not released between the first byte of a window set and the
\* last byte of the stream after it, that is, the first byte after a release
\* of CS is the CASET command that starts the next window set; and CS is
\* high whenever a public operation has returned.
C12_ChipSelect ==
    /\ \A k \in 1..Len(bus) : IsWire(bus[k]) => bus[k].cs = 0
    /\ \A k \in 1..Len(bus) :
          bus[k].ev = "cs" /\ bus[k].val = 1
          => \A j \in (k + 1)..Len(bus) :
                 FirstWireAfter(k, j) => IsCmd(bus[j], ST7735_CASET)
    /\ LET w == Wire(bus)
       IN  \A i \in WindowSets(w) : \A k \in 0..10 : w[i + k].cs = 0
    /\ ops # <<>> => cs = 1
    /\ Wire(bus) # <<>> => bus[Len(bus)].ev = "cs" /\ bus[Len(bus)].val = 1

\* A string of two glyphs was printed: CS was released after the first
\* glyph, taken again for the second and released at the end.
C12_Witness ==
    /\ Returned("tft_print")
    /\ Len(Windows(bus)) = 2
    /\ Cardinality({k \in 1..Len(bus) : bus[k].ev = "cs" /\ bus[k].val = 1}) = 2
    /\ cs = 1

\* The first call of function fn after entry i of calls.
NextCallOf(i, fn) ==
    LET js == {j \in (i + 1)..Len(calls) : calls[j].fn = fn}
    IN  calls[CHOOSE j \in js : \A k \in js : j <= k]

\* The functions that fill the scratch buffer, and the number of pixels each
\* call puts into it.
Fillers ==
    {"tft_fill_rect", "_tft_draw_fast_h_line", "_tft_draw_fast_v_line",
     "tft_print_char"}

FillPixels(call) ==
    IF call.fn = "tft_print_char" THEN FONT_WIDTH * FONT_HEIGHT
    ELSE call.args[3]

\* The number of bytes that call i of a filler has written to the scratch
\* buffer: the final value of sz, which the call passes to SPI_send_DMA.
BytesWritten(i) == NextCallOf(i, "SPI_send_DMA").args[2]

\* C13 as stated: every fill operation within the display writes strictly
\* fewer than 320 bytes to the scratch buffer.
C13_StrictlyFewer ==
    \A i \in 1..Len(calls) :
        calls[i].fn \in Fillers => BytesWritten(i) < BufSize

\* C13: every fill operation within the display writes two bytes per pixel
\* to the scratch buffer, from its start, and at most its capacity of 320
\* bytes: 2w for tft_fill_rect and the fast horizontal line, 2h for the fast
\* vertical line, 70 for tft_print_char; no store goes outside the buffer.
\* A fill of the full width writes exactly 320 bytes.
C13_AtMostCapacity ==
    /\ ~oob
    /\ \A i \in 1..Len(calls) :
          calls[i].fn \in Fillers
          => /\ NextCallOf(i, "SPI_send_DMA").args[1] = "_buffer"
             /\ BytesWritten(i) = 2 * FillPixels(calls[i])
             /\ BytesWritten(i) <= BufSize
             /\ calls[i].fn \in {"tft_fill_rect", "_tft_draw_fast_h_line"}
                /\ calls[i].args[3] = ST7735_WIDTH
                => BytesWritten(i) = BufSize

\* A rectangle of the full width was filled: 320 bytes were written, the
\* last of them to the last byte of the buffer.
C13_Witness ==
    /\ Returned("tft_fill_rect")
    /\ Last.args[3] = ST7735_WIDTH
    /\ Last.args[5] = ORANGE
    /\ BytesWritten(1) = BufSize
    /\ buffer[BufSize - 1] = ORANGE % 256
    /\ ~oob

\* The 70 bytes of the glyph of character c in foreground fg and background
\* bg: pixel 5i + j, for row i and column j, is fg when font[5c + j] has bit
\* i set, and each pixel is its high byte and then its low byte.
GlyphBytes(c, fg, bg) ==
    [b \in 1..(2 * 5 * 7) |->
        LET q  == (b - 1) \div 2
            i  == q \div 5
            j  == q % 5
            px == IF (font(5 * c + j) \div (2 ^ i)) % 2 = 1 THEN fg ELSE bg
        IN  IF b % 2 = 1 THEN px \div 256 ELSE px % 256]

\* This step is a call of one of the text operations.
TextStep ==
    /\ Len(ops') = Len(ops) + 1
    /\ ops'[Len(ops')].fn \in {"tft_print_char", "tft_print", "tft_print_number"}

\* C14: every call of tft_print_char(c), made directly or by tft_print or
\* tft_print_number, passes to SPI_send_DMA the scratch buffer, the size 70
\* and repeat = 1, and the 70 bytes that go out are the glyph of c in the
\* foreground and background colours of the state the call was made in;
\* after the last call the first 70 bytes of the buffer hold its glyph and
\* the bytes behind them are as they were before.
C14_GlyphBuffer ==
    [][TextStep
       => LET pc == SelectSeq(calls', LAMBDA e : e.fn = "tft_print_char")
              sd == SelectSeq(calls', LAMBDA e : e.fn = "SPI_send_DMA")
              d  == Dmas(bus')
          IN  /\ Len(d) = Len(pc)
              /\ Len(sd) = Len(pc)
              /\ \A k \in 1..Len(pc) :
                    /\ sd[k].args = <<"_buffer", 70, 1>>
                    /\ d[k].val = 70
                    /\ d[k].rep = 1
                    /\ d[k].data = GlyphBytes(pc[k].args[1], color, bg_color)
              /\ Len(pc) > 0
                 => \A b \in 0..69 :
                        buffer'[b] = GlyphBytes(pc[Len(pc)].args[1], color,
                                                bg_color)[b + 1]
              /\ \A b \in 70..(BufSize - 1) : buffer'[b] = buffer[b]
              /\ color' = color
              /\ bg_color' = bg_color
              /\ ~oob'
      ]_vars

\* A glyph was printed on a red background chosen by the call before: its
\* 70 bytes hold pixels of the foreground and pixels of the background.
C14_Witness ==
    /\ Returned("tft_print_char")
    /\ Len(ops) = 3
    /\ ops[2].fn = "tft_set_background_color"
    /\ Len(Dmas(bus)) = 1
    /\ Dmas(bus)[1].val = 70
    /\ \E a, b \in 1..35 :
          /\ Dmas(bus)[1].data[2 * a - 1] = RED \div 256
          /\ Dmas(bus)[1].data[2 * a] = RED % 256
          /\ Dmas(bus)[1].data[2 * b - 1] = WHITE \div 256

\* C15: tft_print(str) calls tft_print_char once for each character of str,
\* in order, the k-th (from 0) with the cursor 6k columns right of where it
\* was when tft_print was called; on return cursor x is 6 * length further
\* and cursor y is the same, also when that is beyond the display width;
\* the empty string puts nothing on the bus and leaves the cursor alone.
C15_PrintAdvance ==
    /\ Returned("tft_print")
       => LET txt == Last.args
              pc == CallsOf("tft_print_char")
          IN  /\ [k \in 1..Len(pc) |-> pc[k].args[1]] = txt
              /\ Len(Windows(bus)) = Len(txt)
              /\ txt = <<>> => bus = <<>> /\ Len(calls) = 1
    /\ \A i \in 1..Len(calls) :
          calls[i].fn = "tft_print"
          => LET start == calls[i].cur
                 pc == SelectSeq(SubSeq(calls, i + 1, Len(calls)),
                                 LAMBDA e : e.fn = "tft_print_char")
                 wins == Windows(bus)
             IN  /\ \A k \in 1..Len(pc) :
                       /\ pc[k].cur = <<start[1] + 6 * (k - 1), start[2]>>
                       /\ wins[k].x0 = start[1] + 6 * (k - 1)
                       /\ wins[k].y0 = start[2]
                 /\ cursor_x = start[1] + 6 * Len(pc)
                 /\ cursor_y = start[2]

\* "Hi" was printed from the last column of the display: the second glyph
\* was sent to a window beyond the display width and the cursor went on.
C15_Witness ==
    /\ Returned("tft_print")
    /\ Last.args = <<72, 105>>
    /\ calls[1].cur = <<ST7735_WIDTH, ST7735_HEIGHT + 25>>
    /\ Windows(bus)[2].x0 = ST7735_WIDTH + 6
    /\ cursor_x = ST7735_WIDTH + 12

\* The calls of the fast lines in calls, in order: function and arguments.
FastLines ==
    LET fl == SelectSeq(calls, LAMBDA e : e.fn \in {"_tft_draw_fast_h_line",
                                                     "_tft_draw_fast_v_line"})
    IN  [k \in 1..Len(fl) |-> <<fl[k].fn, fl[k].args>>]

\* The cells on the one-pixel border of the rectangle.
Border(x, y, w, h) ==
    {p \in (x..(x + w - 1)) \X (y..(y + h - 1)) :
        p[1] = x \/ p[1] = x + w - 1 \/ p[2] = y \/ p[2] = y + h - 1}

\* C16: tft_draw_rect(x, y, w, h, c) on a rectangle within the display
\* calls the fast lines four times: horizontal from (x, y) with length w,
\* horizontal from (x, y+h-1) with length w, vertical from (x, y) with
\* length h, vertical from (x+w-1, y) with length h; each is one DMA
\* transfer of its length in pixels; the cells painted are those of the
\* border of the rectangle and no others.
C16_RectBorder ==
    Returned("tft_draw_rect")
    /\ InBounds(Last.args[1], Last.args[2], Last.args[3], Last.args[4])
    => LET x == Last.args[1]
           y == Last.args[2]
           w == Last.args[3]
           h == Last.args[4]
           c == Last.args[5]
           d == Dmas(bus)
       IN  /\ FastLines = << <<"_tft_draw_fast_h_line", <<x, y, w, c>> >>,
                             <<"_tft_draw_fast_h_line", <<x, y + h - 1, w, c>> >>,
                             <<"_tft_draw_fast_v_line", <<x, y, h, c>> >>,
                             <<"_tft_draw_fast_v_line", <<x + w - 1, y, h, c>> >> >>
           /\ [k \in 1..Len(d) |-> <<d[k].val, d[k].rep>>]
                  = << <<2 * w, 1>>, <<2 * w, 1>>, <<2 * h, 1>>, <<2 * h, 1>> >>
           /\ Windows(bus) =
                  << [x0 |-> x + 1, x1 |-> x + w, y0 |-> y + 26, y1 |-> y + 26],
                     [x0 |-> x + 1, x1 |-> x + w,
                      y0 |-> y + h + 25, y1 |-> y + h + 25],
                     [x0 |-> x + 1, x1 |-> x + 1, y0 |-> y + 26, y1 |-> y + h + 25],
                     [x0 |-> x + w, x1 |-> x + w,
                      y0 |-> y + 26, y1 |-> y + h + 25] >>
           /\ Painted(bus) = Border(x, y, w, h)
           /\ ~oob

\* The outline of a rectangle of 4 by 5 was drawn: 14 cells, the 6 cells
\* inside left alone.
C16_Witness ==
    /\ Returned("tft_draw_rect")
    /\ Last.args = <<10, 3, 4, 5, NAVY>>
    /\ Cardinality(Painted(bus)) = 14
    /\ <<11, 4>> \notin Painted(bus)
    /\ <<13, 7>> \in Painted(bus)

\* This step is a call of the public operation fn.
OpStep(fn) == Len(ops') = Len(ops) + 1 /\ ops'[Len(ops')].fn = fn

\* The pins, the DMA registers and the memory of the driver.
Hardware == <<dc, cs, rst, dma, buffer, str, oob>>

\* The state before the step with another cursor and other colours.
Elsewhere ==
    [Cur EXCEPT !.cursor_x = U16(cursor_x + 17), !.cursor_y = U16(cursor_y + 5),
                !.color = U16(color + 4097), !.bg_color = U16(bg_color + 771)]

\* The drawing operation op applied to state s.
Redo(s, op) ==
    LET a == op.args
    IN  IF op.fn = "tft_draw_pixel" THEN tft_draw_pixel(s, a[1], a[2], a[3])
        ELSE IF op.fn = "tft_fill_rect"
        THEN tft_fill_rect(s, a[1], a[2], a[3], a[4], a[5])
        ELSE IF op.fn = "tft_draw_bitmap"
        THEN tft_draw_bitmap(s, a[1], a[2], a[3], a[4], Bitmap(a[3] * a[4] * 2))
        ELSE IF op.fn = "tft_draw_rect"
        THEN tft_draw_rect(s, a[1], a[2], a[3], a[4], a[5])
        ELSE tft_draw_line(s, a[1], a[2], a[3], a[4], a[5])

Drawing ==
    {"tft_draw_pixel", "tft_fill_rect", "tft_draw_bitmap", "tft_draw_rect",
     "tft_draw_line"}

\* C17: tft_set_cursor(x, y) makes the cursor (x+1, y+26), tft_set_color
\* sets the foreground colour, tft_set_background_color the background
\* colour, and each of the three leaves everything else of the driver as it
\* was and the bus and the pins untouched; tft_print_char leaves the cursor
\* and the colours as they were; the drawing operations leave the cursor
\* and the colours as they were, and put on the bus what they would put
\* there from a state with another cursor and other colours.
C17_FrameEffects ==
    [][/\ OpStep("tft_set_cursor")
          => /\ cursor_x' = ops'[Len(ops')].args[1] + 1
             /\ cursor_y' = ops'[Len(ops')].args[2] + 26
             /\ bus' = <<>>
             /\ UNCHANGED <<color, bg_color, Hardware>>
       /\ OpStep("tft_set_color")
          => /\ color' = ops'[Len(ops')].args[1]
             /\ bus' = <<>>
             /\ UNCHANGED <<cursor_x, cursor_y, bg_color, Hardware>>
       /\ OpStep("tft_set_background_color")
          => /\ bg_color' = ops'[Len(ops')].args[1]
             /\ bus' = <<>>
             /\ UNCHANGED <<cursor_x, cursor_y, color, Hardware>>
       /\ OpStep("tft_print_char")
          => UNCHANGED <<cursor_x, cursor_y, color, bg_color>>
       /\ (\E fn \in Drawing : OpStep(fn))
          => /\ UNCHANGED <<cursor_x, cursor_y, color, bg_color>>
             /\ bus' = Redo(Elsewhere, ops'[Len(ops')]).bus
             /\ bus' # <<>>
      ]_vars

\* The foreground colour was set after the cursor had been placed: the
\* cursor is where it was put, the background is the initial one.
C17_Witness ==
    /\ Len(ops) = 3
    /\ ops[2] = [fn |-> "tft_set_cursor", args |-> <<10, 3>>]
    /\ ops[3] = [fn |-> "tft_set_color", args |-> <<ORANGE>>]
    /\ <<cursor_x, cursor_y, color, bg_color>> = <<11, 29, ORANGE, BLACK>>
    /\ bus = <<>>

\* The bytes on wire w are window sets, each followed by a stream of data
\* that fills its window once: the window sets are at idx, the first at the
\* first byte, the stream of each runs up to the next window set or to the
\* end, has no command byte in it and has two bytes for each cell of the
\* window.
WindowsAndStreams(w, idx) ==
    /\ w # <<>> => Len(idx) > 0 /\ idx[1] = 1
    /\ \A k \in 1..Len(idx) :
          LET win == WindowAt(w, idx[k])
              e == IF k < Len(idx) THEN idx[k + 1] - 1 ELSE Len(w)
          IN  /\ e >= idx[k] + 11
              /\ \A j \in (idx[k] + 11)..e : w[j].dc = 1
              /\ StreamLen(w, idx[k] + 11, e)
                     = 2 * (win.x1 - win.x0 + 1) * (win.y1 - win.y0 + 1)

\* The number of bytes that follow the window sets of wire w.
StreamTotal(w) == StreamLen(w, 1, Len(w)) - 11 * Cardinality(WindowSets(w))

\* This step is a call of a drawing or text operation.
StreamStep ==
    \E fn \in Drawing \cup {"tft_print_char", "tft_print", "tft_print_number"} :
        OpStep(fn)

\* C18: in every drawing and text operation each stream of pixel data
\* follows a complete window set of the same operation, without another
\* command in between, and has 2 * (x1 - x0 + 1) * (y1 - y0 + 1) bytes for
\* the window (x0, y0)-(x1, y1) just opened: 2 bytes in all for
\* tft_draw_pixel, 2wh for tft_fill_rect, 2wh for tft_draw_bitmap, 70 for
\* each glyph, 2 * length for each fast line.  tft_draw_bitmap sends the
\* caller's memory in one pass of 2wh bytes and leaves the scratch buffer as
\* it was.
C18_StreamFillsWindow ==
    [][StreamStep
       => \A w \in {Wire(bus')}, d \in {Dmas(bus')} :
          \A idx \in {WindowIndex(w)} :
          LET op == ops'[Len(ops')]
              a  == op.args
              sd == SelectSeq(calls', LAMBDA e : e.fn = "SPI_send_DMA")
              fl == SelectSeq(calls', LAMBDA e :
                        e.fn \in {"_tft_draw_fast_h_line", "_tft_draw_fast_v_line"})
          IN  /\ WindowsAndStreams(w, idx)
              /\ op.fn = "tft_draw_pixel" => StreamTotal(w) = 2
              /\ op.fn = "tft_fill_rect" => StreamTotal(w) = 2 * a[3] * a[4]
              /\ op.fn = "tft_draw_bitmap"
                 => /\ StreamTotal(w) = 2 * a[3] * a[4]
                    /\ Len(sd) = 1
                    /\ sd[1].args = <<"bitmap", 2 * a[3] * a[4], 1>>
                    /\ d[1].data = Bitmap(2 * a[3] * a[4])
                    /\ buffer' = buffer
              /\ op.fn \in {"tft_print_char", "tft_print", "tft_print_number"}
                 => \A k \in 1..Len(d) : d[k].val * d[k].rep = 70
              /\ op.fn \in {"tft_draw_rect", "tft_draw_line"}
                 => \A f \in {fl} :
                        /\ Len(f) = Len(d)
                        /\ \A k \in 1..Len(d) :
                               d[k].val * d[k].rep = 2 * f[k].args[3]
      ]_vars

\* A bitmap of the whole display was drawn: one pass of 25600 bytes from
\* the caller's memory, more than the scratch buffer holds.
C18_Witness ==
    /\ Returned("tft_draw_bitmap")
    /\ Last.args = <<0, 0, ST7735_WIDTH, ST7735_HEIGHT>>
    /\ Len(Dmas(bus)) = 1
    /\ Dmas(bus)[1].val = 25600
    /\ Dmas(bus)[1].val > BufSize
    /\ Dmas(bus)[1].rep = 1

\* C19: whenever tft_print_char is called with the cursor at (cx, cy), the
\* window it opens is (cx, cy)-(cx + 4, cy + 6): 5 columns by 7 rows from the
\* cursor.
C19_GlyphWindow ==
    \A i \in 1..Len(calls) :
        calls[i].fn = "tft_print_char"
        => NextWindowCall(i).args
               = <<calls[i].cur[1], calls[i].cur[2],
                   calls[i].cur[1] + 4, calls[i].cur[2] + 6>>

\* The Mario copy printed a glyph with the cursor at (11, 29): the window
\* on the bus is (11, 29)-(15, 17), its last row taken from the cursor
\* column.
C19_Witness ==
    /\ Returned("tft_print_char")
    /\ calls[1].cur = <<11, 29>>
    /\ Windows(bus)[1] = [x0 |-> 11, x1 |-> 15, y0 |-> 29, y1 |-> 17]

\* The Mario copy printed a glyph with the cursor at (26, 26), on the line
\* where column and row are equal: the window is the one of the claim.
C19_OnDiagonal ==
    /\ Returned("tft_print_char")
    /\ calls[1].cur = <<26, 26>>
    /\ Windows(bus)[1] = [x0 |-> 26, x1 |-> 30, y0 |-> 26, y1 |-> 32]

\* C20: tft_draw_line(x0, y0, x1, y1, c) with x0 # x1 and y0 # y1 calls
\* tft_draw_pixel max(|x1-x0|, |y1-y0|) + 1 times, with colour c; the major
\* axis is y exactly when |y1-y0| > |x1-x0|; the k-th pixel has the k-th
\* major coordinate from the smaller end; the first and the last pixel are
\* the two endpoints; from one pixel to the next the minor coordinate stays
\* or moves by one, always toward the minor coordinate of the last pixel.
C20_BresenhamPath ==
    Returned("tft_draw_line") /\ Last.args[1] # Last.args[3]
    /\ Last.args[2] # Last.args[4]
    => LET a == Last.args
           px == PixelCalls(calls)
           n == Len(px)
           dx == Max(a[1], a[3]) - Min(a[1], a[3])
           dy == Max(a[2], a[4]) - Min(a[2], a[4])
           major == IF dy > dx THEN 2 ELSE 1
           minor == IF dy > dx THEN 1 ELSE 2
           lo == Min(a[major], a[major + 2])
           dir == IF px[n][minor] > px[1][minor] THEN 1 ELSE -1
       IN  /\ n = Max(dx, dy) + 1
           /\ \A k \in 1..n : px[k][major] = lo + k - 1 /\ px[k][3] = a[5]
           /\ {<<px[1][1], px[1][2]>>, <<px[n][1], px[n][2]>>}
                  = {<<a[1], a[2]>>, <<a[3], a[4]>>}
           /\ \A k \in 1..(n - 1) :
                  /\ px[k + 1][major] = px[k][major] + 1
                  /\ px[k + 1][minor] - px[k][minor] \in {0, dir}
           /\ Len(Windows(bus)) = n

\* The diagonal of the display was drawn from its lower left to its upper
\* right end: 160 pixels, one in each column, the row moving up.
C20_Witness ==
    /\ Returned("tft_draw_line")
    /\ Last.args = <<0, ST7735_HEIGHT - 1, ST7735_WIDTH - 1, 0, ORANGE>>
    /\ Len(PixelCalls(calls)) = ST7735_WIDTH
    /\ PixelCalls(calls)[1] = <<0, ST7735_HEIGHT - 1, ORANGE>>
    /\ PixelCalls(calls)[ST7735_WIDTH] = <<ST7735_WIDTH - 1, 0, ORANGE>>

\* C21: with the DMA channel running beside the CPU, SPI_send_DMA(buffer,
\* size, R) leaves its loop and returns only when the channel has completed
\* R passes of the buffer since this call switched it on; every time the
\* wait loop was left stands for a pass of its own, also in the second of
\* two calls, when the flag may still be set from the first.
C21_ReturnAfterPasses ==
    /\ send.pc # "idle" => send.waits <= send.passes
    /\ send.pc \in {"off", "idle"} /\ Returned("SPI_send_DMA")
       => send.passes >= Last.args[2]

\* The second call of the Mario copy, with repeat = 1, has returned and the
\* channel has not completed a pass during it: the wait loop was left on
\* the flag that a pass of the first call, completed between its last
\* clearing of the flag and its switching off of the channel, left set.
C21_Witness ==
    /\ Len(ops) = 3
    /\ ops[2].fn = "SPI_send_DMA"
    /\ ops[3].fn = "SPI_send_DMA"
    /\ ops[3].args[2] = 1
    /\ send.pc = "idle"
    /\ send.waits = 1
    /\ send.passes = 0


(***************************************************************************)
(* The public operations step by step, with the two flags of the hardware  *)
(***************************************************************************)
\* An operation is called and then runs one bus event at a time.  Between
\* two bus events the processor runs loops whose counters are bounded by the
\* arguments (the digits of a number, the characters of a string, the rows
\* and the columns of a glyph, the pixels of a rectangle or a line), so that
\* part is one step.  The operation waits in two places only: the loop of
\* SPI_send on TXE and the inner loop of SPI_send_DMA on TC3.
MaxLiveOps == 2

LiveCalls ==
    {[fn |-> "tft_set_cursor", args |-> <<10, 3>>],
     [fn |-> "tft_set_color", args |-> <<RED>>],
     [fn |-> "tft_set_background_color", args |-> <<NAVY>>],
     [fn |-> "tft_print_char", args |-> <<65>>],
     [fn |-> "tft_print", args |-> <<>>],
     [fn |-> "tft_print", args |-> <<72, 105>>],
     [fn |-> "tft_draw_pixel", args |-> <<10, 3, ORANGE>>],
     [fn |-> "tft_fill_rect", args |-> <<10, 3, 4, 5, NAVY>>],
     [fn |-> "tft_fill_rect",
      args |-> <<0, 0, ST7735_WIDTH, ST7735_HEIGHT, NAVY>>],
     [fn |-> "tft_draw_bitmap", args |-> <<10, 3, 4, 5>>],
     [fn |-> "tft_draw_rect", args |-> <<10, 3, 4, 5, NAVY>>],
     [fn |-> "tft_draw_line", args |-> <<10, 3, 14, 12, ORANGE>>],
     [fn |-> "tft_draw_line", args |-> <<0, 7, ST7735_WIDTH - 1, 7, ORANGE>>],
     [fn |-> "tft_draw_line", args |-> <<7, 0, 7, ST7735_HEIGHT - 1, ORANGE>>]}
    \cup {[fn |-> "tft_print_number", args |-> <<num, 0>>] : num \in Numbers}

\* The operation op applied to the driver state s; ub is the outcome of the
\* negation in tft_print_number.
LiveApply(s, op, ub) ==
    LET a == op.args
    IN  IF op.fn = "tft_set_cursor" THEN tft_set_cursor(s, a[1], a[2])
        ELSE IF op.fn = "tft_set_color" THEN tft_set_color(s, a[1])
        ELSE IF op.fn = "tft_set_background_color"
        THEN tft_set_background_color(s, a[1])
        ELSE IF op.fn = "tft_print_char" THEN tft_print_char(s, a[1])
        ELSE IF op.fn = "tft_print" THEN tft_print(s, CStr(a), 0)
        ELSE IF op.fn = "tft_print_number"
        THEN tft_print_number(s, a[1], a[2], ub)
        ELSE Redo(s, op)

LiveStart(fn, args, r) ==
    /\ run.pc = "idle"
    /\ Len(ops) < MaxLiveOps
    /\ run' = [pc |-> "cpu", fn |-> fn, args |-> args, res |-> r, pos |-> 0,
               left |-> 0, txe |-> 1]
    /\ bus' = <<>>
    /\ UNCHANGED <<cursor_x, cursor_y, color, bg_color, buffer, str, oob, dc,
                   cs, rst, dma, calls, ops, inited, panel, send, demo>>

LiveInit == ~inited /\ LiveStart("tft_init", <<>>, tft_init(Cur))

LiveCall ==
    \E op \in LiveCalls, ub \in NegateOutcomes :
        inited /\ LiveStart(op.fn, op.args, LiveApply(Cur, op, ub))

\* The operation reaches its next bus event: a pin is written, Delay_Ms
\* returns, SPI_send writes the data register (which clears TXE), or
\* SPI_send_DMA sets the count and turns the channel on.
LiveStep ==
    /\ run.pc = "cpu"
    /\ run.pos < Len(run.res.bus)
    /\ LET e == run.res.bus[run.pos + 1]
       IN  /\ bus' = Append(bus, e)
           /\ dc' = e.dc
           /\ cs' = e.cs
           /\ rst' = IF e.ev = "rst" THEN e.val ELSE rst
           /\ dma' = IF e.ev = "dma"
                     THEN [dma EXCEPT !.cntr = e.val, !.en = 1]
                     ELSE dma
           /\ run' = [run EXCEPT
                        !.pos = @ + 1,
                        !.pc = IF e.ev = "spi" THEN "txe"
                               ELSE IF e.ev = "dma"
                               THEN (IF e.rep # 0 THEN "clear" ELSE "off")
                               ELSE "cpu",
                        !.txe = IF e.ev = "spi" THEN 0 ELSE @,
                        !.left = IF e.ev = "dma" THEN e.rep ELSE @]
    /\ UNCHANGED <<cursor_x, cursor_y, color, bg_color, buffer, str, oob,
                   calls, ops, inited, panel, send, demo>>

LiveRest ==
    <<cursor_x, cursor_y, color, bg_color, buffer, str, oob, dc, cs, rst, bus,
      calls, ops, inited, panel, send, demo>>

\* while (!(SPI1->STATR & SPI_STATR_TXE)) ;
LiveTxeWait ==
    /\ run.pc = "txe"
    /\ run.txe = 1
    /\ run' = [run EXCEPT !.pc = "cpu"]
    /\ UNCHANGED <<dma, LiveRest>>

\* DMA1->INTFCR = DMA1_FLAG_TC3;
LiveClear ==
    /\ run.pc = "clear"
    /\ dma' = [dma EXCEPT !.tc = 0]
    /\ run' = [run EXCEPT !.pc = "tc"]
    /\ UNCHANGED LiveRest

\* while (!(DMA1->INTFR & DMA1_FLAG_TC3)) ;  and the test of while (repeat--)
LiveTcWait ==
    /\ run.pc = "tc"
    /\ dma.tc = 1
    /\ run' = [run EXCEPT !.left = @ - 1,
                          !.pc = IF run.left > 1 THEN "clear" ELSE "off"]
    /\ UNCHANGED <<dma, LiveRest>>

\* DMA1_Channel3->CFGR &= ~DMA_CFGR1_EN;
LiveDmaOff ==
    /\ run.pc = "off"
    /\ dma' = [dma EXCEPT !.en = 0]
    /\ run' = [run EXCEPT !.pc = "cpu"]
    /\ UNCHANGED LiveRest

\* The operation returns: the statics and the registers are as it leaves them.
LiveReturn ==
    /\ run.pc = "cpu"
    /\ run.pos = Len(run.res.bus)
    /\ Commit(run.res, run.fn, run.args)
    /\ inited' = TRUE
    /\ run' = NotRunning
    /\ UNCHANGED <<panel, send, demo>>

\* The shift register of the SPI takes the byte: TXE is raised.
HwTxe ==
    /\ run.pc = "txe"
    /\ run.txe = 0
    /\ run' = [run EXCEPT !.txe = 1]
    /\ UNCHANGED <<dma, LiveRest>>

\* A channel that is not circular stops after one pass: the count stays 0.
ChannelPassOneShot(d) == [d EXCEPT !.tc = 1, !.cntr = 0]

\* The channel, configured circular, finishes a pass: TC3 is raised and the
\* count is reloaded.
ChannelPass(d) == [d EXCEPT !.tc = 1]

HwTc ==
    /\ dma.en = 1
    /\ dma.cntr > 0
    /\ dma.tc = 0
    /\ dma' = ChannelPass(dma)
    /\ UNCHANGED <<run, LiveRest>>

CpuStep ==
    \/ LiveStep
    \/ LiveTxeWait
    \/ LiveClear
    \/ LiveTcWait
    \/ LiveDmaOff
    \/ LiveReturn

NextLive ==
    \/ LiveInit
    \/ LiveCall
    \/ CpuStep
    \/ HwTxe
    \/ HwTc

\* The processor keeps running, the SPI keeps shifting bytes out and the
\* channel, once turned on, keeps transferring.
SpecLive ==
    /\ Init
    /\ [][NextLive]_vars
    /\ WF_vars(CpuStep)
    /\ WF_vars(HwTxe)
    /\ WF_vars(HwTc)

\* The operation in progress waits for a flag that is down.
WaitsForFlag ==
    \/ run.pc = "txe" /\ run.txe = 0
    \/ run.pc = "tc" /\ dma.tc = 0

\* C22: with the SPI raising TXE after every byte and the channel raising TC3
\* after every pass, every public operation called with arguments within
\* bounds returns; an operation in progress that cannot take a step is
\* waiting in one of the two flag loops for a flag that is down.
C22_EventuallyReturns ==
    /\ (run.pc # "idle") ~> (run.pc = "idle")
    /\ [](run.pc # "idle" /\ ~WaitsForFlag => ENABLED CpuStep)
    /\ [](WaitsForFlag => ~ENABLED CpuStep)

\* tft_fill_rect of the whole display, 80 passes of the channel, has returned
\* and so has tft_init before it.
C22_Witness ==
    /\ run.pc = "idle"
    /\ Len(ops) = 2
    /\ ops[2].fn = "tft_fill_rect"
    /\ ops[2].args[4] = ST7735_HEIGHT
    /\ dma.en = 0
    /\ Len(bus) > 0

(***************************************************************************)
(* The demo: main of st7735_demo.c                                         *)
(***************************************************************************)
\* uint16_t colors[] of main.
colors ==
    <<BLACK, NAVY, RGB565(0, 125, 0), RGB565(0, 125, 123), RGB565(123, 0, 0),
      RGB565(123, 0, 123), RGB565(123, 125, 0), RGB565(198, 195, 198),
      RGB565(123, 125, 123), RGB565(0, 0, 255), RGB565(0, 255, 0),
      RGB565(0, 255, 255), RED, RGB565(255, 0, 255), RGB565(255, 255, 0),
      WHITE, ORANGE, RGB565(173, 255, 41), RGB565(255, 130, 198)>>

\* One round of the loop of rand8: new_data is the exclusive or of the bits
\* 31, 21, 1 and 0 of lfsr, and lfsr = (lfsr << 1) | (new_data & 1).
LfsrShift(l) ==
    LET new_data == ((l.hi \div 32768) + (l.hi \div 32) + (l.lo \div 2) + l.lo) % 2
    IN  [hi |-> (l.hi * 2 + (l.lo \div 32768)) % 65536,
         lo |-> (l.lo * 2 + new_data) % 65536]

RECURSIVE LfsrShifts(_, _)
LfsrShifts(l, bit) == IF bit = 0 THEN l ELSE LfsrShifts(LfsrShift(l), bit - 1)

\* rand8(): eight rounds; the byte returned is lfsr & NOISE_MASK of the
\* result.
NOISE_BITS == 8
rand8(l) == LfsrShifts(l, NOISE_BITS)
Byte(l) == l.lo % 256

\* The order in which the arguments of one call are evaluated is not
\* specified: n calls of rand8 in the arguments of a call give their values
\* to the arguments from left to right or from right to left.
ArgOrders == {"left", "right"}
RECURSIVE Draws(_, _)
Draws(l, n) == IF n = 0 THEN <<>> ELSE <<rand8(l)>> \o Draws(rand8(l), n - 1)
RandArgs(l, n, order) ==
    [a \in 1..n |-> Byte(Draws(l, n)[IF order = "left" THEN a ELSE n + 1 - a])]
AfterDraws(d, n) == [d EXCEPT !.lfsr = Draws(d.lfsr, n)[n]]

\* colors[rand8() % 19], r the byte drawn.
RandColor(r) == colors[(r % 19) + 1]

\* The tests of the main loop in order: points, vertical scan lines,
\* horizontal scan lines, lines, nested rectangles, rectangles, filled
\* rectangles and, in the PlatformIO demo only, moving text.  Titles are the
\* messages of popup; the two loops of "Scan Line" share one popup.
Titles ==
    <<<<68, 114, 97, 119, 32, 80, 111, 105, 110, 116>>,
      <<83, 99, 97, 110, 32, 76, 105, 110, 101>>,
      <<83, 99, 97, 110, 32, 76, 105, 110, 101>>,
      <<68, 114, 97, 119, 32, 76, 105, 110, 101>>,
      <<83, 99, 97, 110, 32, 82, 101, 99, 116>>,
      <<68, 114, 97, 119, 32, 82, 101, 99, 116>>,
      <<70, 105, 108, 108, 32, 82, 101, 99, 116>>,
      <<77, 111, 118, 101, 32, 84, 101, 120, 116>>>>

Hello == <<72, 101, 108, 108, 111, 44, 32, 87, 111, 114, 108, 100, 33>>

\* The number of frames of each test.
FrameCount == <<30000, 50, 50, 2000, 100, 5000, 5000, 500>>

\* At most MaxFrames frames of each test are run, and the main loop at most
\* MaxLoops times.
MaxFrames == 2
MaxLoops == 1
Frames(phase) ==
    IF FrameCount[phase] < MaxFrames THEN FrameCount[phase] ELSE MaxFrames

\* popup(msg, delay) is called next.
Popup(d, phase) == [d EXCEPT !.pc = "popup", !.phase = phase, !.k = 1]

\* The while loop of a test is entered.
Body(d, phase) ==
    [d EXCEPT !.pc = "body", !.phase = phase, !.frame = Frames(phase), !.i = 0,
              !.x = 0, !.y = 0, !.step_x = 1, !.step_y = 1]

\* The loop of a test is left: the second loop of "Scan Line" follows the
\* first, the main loop starts again after the last test.
AfterTest(d) ==
    IF d.phase = 2 THEN Body(d, 3)
    ELSE IF d.phase = 8 \/ (d.phase = 7 /\ d.build = "fun")
    THEN (IF d.loops + 1 >= MaxLoops THEN [d EXCEPT !.pc = "stop"]
          ELSE IF d.build = "fun" THEN Popup([d EXCEPT !.loops = @ + 1], 1)
          ELSE [d EXCEPT !.pc = "color", !.loops = @ + 1])
    ELSE Popup(d, d.phase + 1)

\* while (frame-- > 0) after one more iteration.
NextFrame(d) ==
    IF d.frame = 1 THEN AfterTest(d) ELSE [d EXCEPT !.frame = @ - 1]

\* for (uint8_t i = 0; i < n; i++) inside while (frame-- > 0), after one
\* more iteration.
NextScan(d, n) ==
    IF d.i + 1 < n THEN [d EXCEPT !.i = @ + 1] ELSE NextFrame([d EXCEPT !.i = 0])

\* A driver call of main returns; main moves to d.  Only the last call is
\* kept in ops.
DemoDo(r, fn, args, d) ==
    /\ cursor_x' = r.cursor_x
    /\ cursor_y' = r.cursor_y
    /\ color' = r.color
    /\ bg_color' = r.bg_color
    /\ buffer' = r.buffer
    /\ str' = r.str
    /\ oob' = r.oob
    /\ dc' = r.dc
    /\ cs' = r.cs
    /\ rst' = r.rst
    /\ dma' = r.dma
    /\ bus' = r.bus
    /\ calls' = r.calls
    /\ ops' = <<[fn |-> fn, args |-> args]>>
    /\ demo' = d
    /\ UNCHANGED <<panel, send, run>>

\* SystemInit or Delay_Init, then tft_init().
DemoMain ==
    /\ demo.pc = "main"
    /\ ~inited
    /\ inited' = TRUE
    /\ \E build \in {"fun", "pio"} :
           DemoDo(tft_init(Cur), "tft_init", <<>>,
                  [demo EXCEPT !.pc = "first", !.build = build])

\* tft_fill_rect(0, 0, 160, 80, BLACK), before the main loop and after popup.
DemoClear ==
    /\ demo.pc \in {"first", "clear"}
    /\ DemoDo(tft_fill_rect(Cur, 0, 0, 160, 80, BLACK), "tft_fill_rect",
              <<0, 0, 160, 80, BLACK>>,
              IF demo.pc = "first" THEN [demo EXCEPT !.pc = "color"]
              ELSE Body(demo, demo.phase))
    /\ UNCHANGED inited

\* tft_set_color(RED): before the main loop in DrawTest, first in the loop in
\* DrawTest_PlatformIO.
DemoSetColor ==
    /\ demo.pc = "color"
    /\ DemoDo(tft_set_color(Cur, RED), "tft_set_color", <<RED>>,
              [demo EXCEPT !.pc = "bg"])
    /\ UNCHANGED inited

DemoSetBackground ==
    /\ demo.pc = "bg"
    /\ DemoDo(tft_set_background_color(Cur, BLACK), "tft_set_background_color",
              <<BLACK>>, Popup(demo, 1))
    /\ UNCHANGED inited

\* popup: for (int i = 1; i < 11; i++) tft_fill_rect(110 - (i << 2),
\* 30 - (i << 1), i << 3, i << 2, BLACK), Delay_Ms(10).
DemoPopupRect ==
    /\ demo.pc = "popup"
    /\ LET k == demo.k
           a == <<110 - k * 4, 30 - k * 2, k * 8, k * 4, BLACK>>
       IN  DemoDo(Delay_Ms(tft_fill_rect(Cur, a[1], a[2], a[3], a[4], a[5]), 10),
                  "tft_fill_rect", a,
                  IF k + 1 < 11 THEN [demo EXCEPT !.k = k + 1]
                  ELSE [demo EXCEPT !.pc = "cursor"])
    /\ UNCHANGED inited

\* popup: tft_set_cursor(83, 26).
DemoPopupCursor ==
    /\ demo.pc = "cursor"
    /\ DemoDo(tft_set_cursor(Cur, 83, 26), "tft_set_cursor", <<83, 26>>,
              [demo EXCEPT !.pc = "print"])
    /\ UNCHANGED inited

\* popup: tft_print(msg), Delay_Ms(delay).
DemoPopupPrint ==
    /\ demo.pc = "print"
    /\ DemoDo(Delay_Ms(tft_print(Cur, CStr(Titles[demo.phase]), 0), 1000),
              "tft_print", Titles[demo.phase], [demo EXCEPT !.pc = "clear"])
    /\ UNCHANGED inited

\* tft_draw_pixel(rand8() % 160, rand8() % 80, colors[rand8() % 19]).
DemoPoint ==
    /\ demo.pc = "body" /\ demo.phase = 1
    /\ \E order \in ArgOrders :
           LET r == RandArgs(demo.lfsr, 3, order)
               a == <<r[1] % 160, r[2] % 80, RandColor(r[3])>>
           IN  DemoDo(tft_draw_pixel(Cur, a[1], a[2], a[3]), "tft_draw_pixel",
                      a, NextFrame(AfterDraws(demo, 3)))
    /\ UNCHANGED inited

\* for (uint8_t i = 0; i < 160; i++) tft_draw_line(i, 0, i, 80, ...).
DemoScanV ==
    /\ demo.pc = "body" /\ demo.phase = 2
    /\ LET c == RandColor(RandArgs(demo.lfsr, 1, "left")[1])
       IN  DemoDo(tft_draw_line(Cur, demo.i, 0, demo.i, 80, c),
                  "tft_draw_line", <<demo.i, 0, demo.i, 80, c>>,
                  NextScan(AfterDraws(demo, 1), 160))
    /\ UNCHANGED inited

\* for (uint8_t i = 0; i < 80; i++) tft_draw_line(0, i, 180, i, ...).
DemoScanH ==
    /\ demo.pc = "body" /\ demo.phase = 3
    /\ LET c == RandColor(RandArgs(demo.lfsr, 1, "left")[1])
       IN  DemoDo(tft_draw_line(Cur, 0, demo.i, 180, demo.i, c),
                  "tft_draw_line", <<0, demo.i, 180, demo.i, c>>,
                  NextScan(AfterDraws(demo, 1), 80))
    /\ UNCHANGED inited

\* tft_draw_line(rand8() % 160, rand8() % 80, rand8() % 160, rand8() % 80,
\* colors[rand8() % 19]).
DemoLine ==
    /\ demo.pc = "body" /\ demo.phase = 4
    /\ \E order \in ArgOrders :
           LET r == RandArgs(demo.lfsr, 5, order)
               a == <<r[1] % 160, r[2] % 80, r[3] % 160, r[4] % 80,
                      RandColor(r[5])>>
           IN  DemoDo(tft_draw_line(Cur, a[1], a[2], a[3], a[4], a[5]),
                      "tft_draw_line", a, NextFrame(AfterDraws(demo, 5)))
    /\ UNCHANGED inited

\* for (uint8_t i = 0; i < 40; i++) tft_draw_rect(i, i, 160 - (i << 1),
\* 80 - (i << 1), ...).
DemoScanRect ==
    /\ demo.pc = "body" /\ demo.phase = 5
    /\ LET i == demo.i
           c == RandColor(RandArgs(demo.lfsr, 1, "left")[1])
           a == <<i, i, 160 - i * 2, 80 - i * 2, c>>
       IN  DemoDo(tft_draw_rect(Cur, a[1], a[2], a[3], a[4], a[5]),
                  "tft_draw_rect", a, NextScan(AfterDraws(demo, 1), 40))
    /\ UNCHANGED inited

\* tft_draw_rect(rand8() % 140, rand8() % 60, 20, 20, colors[rand8() % 19]).
DemoRect ==
    /\ demo.pc = "body" /\ demo.phase = 6
    /\ \E order \in ArgOrders :
           LET r == RandArgs(demo.lfsr, 3, order)
               a == <<r[1] % 140, r[2] % 60, 20, 20, RandColor(r[3])>>
           IN  DemoDo(tft_draw_rect(Cur, a[1], a[2], a[3], a[4], a[5]),
                      "tft_draw_rect", a, NextFrame(AfterDraws(demo, 3)))
    /\ UNCHANGED inited

\* tft_fill_rect(rand8() % 140, rand8() % 60, 20, 20, colors[rand8() % 19]).
DemoFill ==
    /\ demo.pc = "body" /\ demo.phase = 7
    /\ \E order \in ArgOrders :
           LET r == RandArgs(demo.lfsr, 3, order)
               a == <<r[1] % 140, r[2] % 60, 20, 20, RandColor(r[3])>>
           IN  DemoDo(tft_fill_rect(Cur, a[1], a[2], a[3], a[4], a[5]),
                      "tft_fill_rect", a, NextFrame(AfterDraws(demo, 3)))
    /\ UNCHANGED inited

\* One frame of "Move Text": the box, the colors, the cursor, the text, the
\* delay, and the box moved by the two uint8_t steps.
DemoMoveText ==
    /\ demo.pc = "body" /\ demo.phase = 8
    /\ LET r  == RandArgs(demo.lfsr, 2, "left")
           bg == RandColor(r[1])
           s1 == tft_fill_rect(Cur, demo.x, demo.y, 88, 17, bg)
           s2 == tft_set_color(s1, RandColor(r[2]))
           s3 == tft_set_background_color(s2, bg)
           s4 == tft_set_cursor(s3, demo.x + 5, demo.y + 5)
           s5 == Delay_Ms(tft_print(s4, CStr(Hello), 0), 25)
           x  == U8(demo.x + demo.step_x)
           sx == IF x >= 72 THEN U8(-demo.step_x) ELSE demo.step_x
           y  == U8(demo.y + demo.step_y)
           sy == IF y >= 63 THEN U8(-demo.step_y) ELSE demo.step_y
       IN  DemoDo(s5, "tft_print", Hello,
                  NextFrame([AfterDraws(demo, 2) EXCEPT
                                !.x = x, !.y = y, !.step_x = sx, !.step_y = sy]))
    /\ UNCHANGED inited

NextDemo ==
    \/ DemoMain
    \/ DemoClear
    \/ DemoSetColor
    \/ DemoSetBackground
    \/ DemoPopupRect
    \/ DemoPopupCursor
    \/ DemoPopupPrint
    \/ DemoPoint
    \/ DemoScanV
    \/ DemoScanH
    \/ DemoLine
    \/ DemoScanRect
    \/ DemoRect
    \/ DemoFill
    \/ DemoMoveText

SpecDemo == Init /\ [][NextDemo]_vars

\* C23: while main of the demo runs, no driver call stores behind the end of
\* _buffer and no transfer from _buffer is longer than its 320 bytes.
C23_WritesInsideBuffer ==
    /\ ~oob
    /\ \A n \in 1..Len(calls) :
          calls[n].fn = "SPI_send_DMA" /\ calls[n].args[1] = "_buffer"
          => calls[n].args[2] <= BufSize

\* The first horizontal scan line, tft_draw_line(0, 0, 180, 0, ...), has
\* returned: 181 pixels were stored and 362 bytes were sent.
C23_Witness ==
    /\ Returned("tft_draw_line")
    /\ Last.args[1] = 0 /\ Last.args[3] = 180
    /\ demo.phase = 3
    /\ oob
    /\ \E n \in 1..Len(calls) :
          calls[n].fn = "SPI_send_DMA" /\ calls[n].args = <<"_buffer", 362, 1>>

\* C24: when tft_print_number has returned, for every number printed and
\* both outcomes of the negation, no store went outside the 12 bytes of str
\* (an index that wrapped below 0 would be 255), the terminator is at index
\* 11, and the index the text starts at is within 0..10, so that at most 11
\* characters lie before the terminator and none of them is a terminator.
C24_PositionInString ==
    Returned("tft_print_number") =>
        /\ ~oob
        /\ str[11] = 0
        /\ \A n \in 1..Len(calls) :
              calls[n].fn = "tft_print"
              => /\ calls[n].args[1] \in 0..10
                 /\ \A k \in calls[n].args[1]..10 : str[k] # 0

\* -2147483648 was printed: ten digits and the sign, the index went down to 0.
C24_Witness ==
    /\ Returned("tft_print_number")
    /\ Last.args[1] = INT32_MIN
    /\ str[0] = 45
    /\ \E n \in 1..Len(calls) : calls[n].fn = "tft_print" /\ calls[n].args[1] = 0
====
